---------------------------- MODULE Spec2Model ----------------------------
(***************************************************************************)
(* Model of the Slowly Unhinged companion front end (src/plan.md holds the *)
(* TypeScript of the companion's main module): the session coordinator     *)
(* (registerAgent / stopAgent), the auto-transcription loop and the capture *)
(* pipeline, the screen-name wheels with their debounced persistence, and  *)
(* the hand-gesture recognizer.                                            *)
(*                                                                         *)
(* Texts are sequences of one-character strings, so that trim(),           *)
(* toLowerCase() and JSON.parse() are computed character by character.     *)
(* Coordinates are hundredths of the normalized image size, times are      *)
(* milliseconds.                                                           *)
(***************************************************************************)
EXTENDS Integers, Sequences, FiniteSets, TLC

(***************************************************************************)
(*                       Texts (String.prototype)                          *)
(***************************************************************************)

\* The characters String.prototype.trim() removes (those the model uses).
WhitespaceChars ==
    {" ", "\n", "\t"}

LOWER_LETTERS ==
    <<"a","b","c","d","e","f","g","h","i","j","k","l","m","n","o","p","q","r","s","t","u",
      "v","w","x","y","z">>

UPPER_LETTERS ==
    <<"A","B","C","D","E","F","G","H","I","J","K","L","M","N","O","P","Q","R","S","T","U",
      "V","W","X","Y","Z">>

DigitChars ==
    {"0","1","2","3","4","5","6","7","8","9"}

\* One character of String.prototype.toLowerCase().
LowerChar(c) ==
    IF \E i \in 1..Len(UPPER_LETTERS) : UPPER_LETTERS[i] = c
    THEN LOWER_LETTERS[CHOOSE i \in 1..Len(UPPER_LETTERS) : UPPER_LETTERS[i] = c]
    ELSE c

\* String.prototype.toLowerCase().
toLowerCase(s) ==
    [i \in 1..Len(s) |-> LowerChar(s[i])]

\* First index at or after i of s that holds no whitespace (Len(s)+1 if none).
RECURSIVE SkipWs(_, _)
SkipWs(s, i) ==
    IF i <= Len(s) /\ s[i] \in WhitespaceChars THEN SkipWs(s, i + 1) ELSE i

\* Last index at or before j of s that holds no whitespace (0 if none).
RECURSIVE SkipWsBack(_, _)
SkipWsBack(s, j) ==
    IF j >= 1 /\ s[j] \in WhitespaceChars THEN SkipWsBack(s, j - 1) ELSE j

\* String.prototype.trim().
trim(s) ==
    SubSeq(s, SkipWs(s, 1), SkipWsBack(s, Len(s)))

\* s holds the text lit at index i.
MatchAt(s, i, lit) ==
    /\ i + Len(lit) - 1 <= Len(s)
    /\ SubSeq(s, i, i + Len(lit) - 1) = lit

(***************************************************************************)
(*  JSON.parse, for the JSON the model's replies use: strings without      *)
(*  escapes, integers, null/true/false, arrays and objects.  A parse       *)
(*  answers [ok |-> TRUE, v |-> value, pos |-> index after the value] or   *)
(*  [ok |-> FALSE] (JSON.parse throws a SyntaxError).                      *)
(***************************************************************************)

JsonFail ==
    [ok |-> FALSE]

JsonOk(v, pos) ==
    [ok |-> TRUE, v |-> v, pos |-> pos]

\* Index of the quote closing the string whose content starts at i (0 if none, or
\* if a raw control character comes first).
RECURSIVE JsonStringEnd(_, _)
JsonStringEnd(s, i) ==
    IF i > Len(s) THEN 0
    ELSE IF s[i] = "\"" THEN i
    ELSE IF s[i] \in {"\n", "\t"} THEN 0
    ELSE JsonStringEnd(s, i + 1)

\* Index after the run of digits starting at i.
RECURSIVE JsonDigitsEnd(_, _)
JsonDigitsEnd(s, i) ==
    IF i <= Len(s) /\ s[i] \in DigitChars THEN JsonDigitsEnd(s, i + 1) ELSE i

JsonNumber(s, i) ==
    LET d == IF i <= Len(s) /\ s[i] = "-" THEN i + 1 ELSE i
        e == JsonDigitsEnd(s, d)
    IN  IF e = d \/ (e - d > 1 /\ s[d] = "0")
        THEN JsonFail
        ELSE JsonOk([t |-> "number", s |-> SubSeq(s, i, e - 1)], e)

RECURSIVE JsonValue(_, _)
RECURSIVE JsonMembers(_, _, _)
RECURSIVE JsonElements(_, _, _)
\* One JSON value starting at the first non-whitespace character at or after i.
JsonValue(s, i) ==
    LET p == SkipWs(s, i)
    IN  IF p > Len(s) THEN JsonFail
        ELSE IF s[p] = "\"" THEN
            LET q == JsonStringEnd(s, p + 1)
            IN  IF q = 0 THEN JsonFail
                ELSE JsonOk([t |-> "string", s |-> SubSeq(s, p + 1, q - 1)], q + 1)
        ELSE IF s[p] = "{" THEN
            LET m == SkipWs(s, p + 1)
            IN  IF m <= Len(s) /\ s[m] = "}"
                THEN JsonOk([t |-> "object", fields |-> <<>>], m + 1)
                ELSE JsonMembers(s, p + 1, <<>>)
        ELSE IF s[p] = "[" THEN
            LET m == SkipWs(s, p + 1)
            IN  IF m <= Len(s) /\ s[m] = "]"
                THEN JsonOk([t |-> "array", items |-> <<>>], m + 1)
                ELSE JsonElements(s, p + 1, <<>>)
        ELSE IF MatchAt(s, p, <<"n","u","l","l">>) THEN JsonOk([t |-> "null"], p + 4)
        ELSE IF MatchAt(s, p, <<"t","r","u","e">>)
            THEN JsonOk([t |-> "boolean", s |-> <<"t","r","u","e">>], p + 4)
        ELSE IF MatchAt(s, p, <<"f","a","l","s","e">>)
            THEN JsonOk([t |-> "boolean", s |-> <<"f","a","l","s","e">>], p + 5)
        ELSE JsonNumber(s, p)

\* The members of an object, from index i (after "{" or ","), up to its "}".
JsonMembers(s, i, acc) ==
    LET k == SkipWs(s, i)
    IN  IF k > Len(s) \/ s[k] # "\"" THEN JsonFail
        ELSE
            LET q == JsonStringEnd(s, k + 1)
                c == IF q = 0 THEN 0 ELSE SkipWs(s, q + 1)
            IN  IF q = 0 \/ c > Len(s) \/ s[c] # ":" THEN JsonFail
                ELSE
                    LET val == JsonValue(s, c + 1)
                        n == IF val.ok THEN SkipWs(s, val.pos) ELSE 0
                        more == Append(acc, [key |-> SubSeq(s, k + 1, q - 1), v |-> val.v])
                    IN  IF ~val.ok \/ n > Len(s) THEN JsonFail
                        ELSE IF s[n] = "}" THEN JsonOk([t |-> "object", fields |-> more], n + 1)
                        ELSE IF s[n] = "," THEN JsonMembers(s, n + 1, more)
                        ELSE JsonFail

\* The elements of an array, from index i (after "[" or ","), up to its "]".
JsonElements(s, i, acc) ==
    LET val == JsonValue(s, i)
        n == IF val.ok THEN SkipWs(s, val.pos) ELSE 0
        more == Append(acc, val.v)
    IN  IF ~val.ok \/ n > Len(s) THEN JsonFail
        ELSE IF s[n] = "]" THEN JsonOk([t |-> "array", items |-> more], n + 1)
        ELSE IF s[n] = "," THEN JsonElements(s, n + 1, more)
        ELSE JsonFail

\* JSON.parse(text): the whole text is one value, whitespace around it allowed.
JSONparse(s) ==
    LET r == JsonValue(s, 1)
    IN  IF r.ok /\ SkipWs(s, r.pos) > Len(s) THEN [ok |-> TRUE, v |-> r.v] ELSE JsonFail

JsUndefined ==
    [t |-> "undefined"]

\* value[key] of a parsed JSON value: the last member of that name of an object,
\* undefined for any other value (reading a property of null throws instead).
RECURSIVE LastField(_, _, _)
LastField(fields, key, n) ==
    IF n = 0 THEN JsUndefined
    ELSE IF fields[n].key = key THEN fields[n].v
    ELSE LastField(fields, key, n - 1)

JsProperty(value, key) ==
    IF value.t = "object" THEN LastField(value.fields, key, Len(value.fields)) ELSE JsUndefined

(***************************************************************************)
(*                  parseBackgroundPromptDecision                          *)
(***************************************************************************)

KEY_STATUS ==
    <<"s","t","a","t","u","s">>

KEY_PROMPT ==
    <<"p","r","o","m","p","t">>

KEY_REASON ==
    <<"r","e","a","s","o","n">>

STATUS_SKIP ==
    <<"s","k","i","p">>

STATUS_GENERATE ==
    <<"g","e","n","e","r","a","t","e">>

REASON_EMPTY_RESPONSE ==
    <<"M","o","d","e","l"," ","r","e","t","u","r","n","e","d"," ","a","n"," ","e","m","p",
      "t","y"," ","r","e","s","p","o","n","s","e",".">>

REASON_NOT_SUITABLE ==
    <<"M","o","d","e","l"," ","i","n","d","i","c","a","t","e","d"," ","t","h","e"," ","t",
      "r","a","n","s","c","r","i","p","t"," ","w","a","s"," ","n","o","t"," ","s","u",
      "i","t","a","b","l","e",".">>

REASON_OMITTED_PROMPT ==
    <<"M","o","d","e","l"," ","i","n","d","i","c","a","t","e","d"," ","g","e","n","e","r",
      "a","t","i","o","n"," ","b","u","t"," ","o","m","i","t","t","e","d"," ","t","h",
      "e"," ","p","r","o","m","p","t"," ","t","e","x","t",".">>

GenerateDecision(prompt, rawText) ==
    [status |-> "generate", prompt |-> prompt, rawText |-> rawText]

SkipDecision(reason, rawText) ==
    [status |-> "skip", reason |-> reason, rawText |-> rawText]

\* The status read without toLowerCase.
DecisionStatusAsWritten(parsed) ==
    LET st == JsProperty(parsed, KEY_STATUS)
    IN  IF st.t = "string" THEN st.s ELSE <<>>

\* typeof parsed.status === "string" ? parsed.status.toLowerCase() : ""
DecisionStatus(parsed) ==
    LET st == JsProperty(parsed, KEY_STATUS)
    IN  IF st.t = "string" THEN toLowerCase(st.s) ELSE <<>>

\* The reason of a "skip" reply: the trimmed reason, or the default.
DecisionSkipReason(parsed) ==
    LET r == JsProperty(parsed, KEY_REASON)
    IN  IF r.t = "string" /\ trim(r.s) # <<>> THEN trim(r.s) ELSE REASON_NOT_SUITABLE

\* typeof parsed.prompt === "string" ? parsed.prompt.trim() : ""
DecisionPrompt(parsed) ==
    LET p == JsProperty(parsed, KEY_PROMPT)
    IN  IF p.t = "string" THEN trim(p.s) ELSE <<>>

\* The body of the try block: "fallthrough" when it neither returns nor throws,
\* "throw" for the SyntaxError of JSON.parse and the TypeError of null.status.
DecisionFromJson(trimmed) ==
    LET parsed == JSONparse(trimmed)
    IN  IF ~parsed.ok \/ parsed.v.t = "null" THEN [status |-> "throw"]
        ELSE IF DecisionStatus(parsed.v) = STATUS_SKIP
            THEN SkipDecision(DecisionSkipReason(parsed.v), trimmed)
        ELSE IF DecisionStatus(parsed.v) = STATUS_GENERATE
            THEN IF DecisionPrompt(parsed.v) # <<>>
                 THEN GenerateDecision(DecisionPrompt(parsed.v), trimmed)
                 ELSE SkipDecision(REASON_OMITTED_PROMPT, trimmed)
        ELSE [status |-> "fallthrough"]

parseBackgroundPromptDecision(rawText) ==
    LET trimmed == trim(rawText)
    IN  IF trimmed = <<>> THEN SkipDecision(REASON_EMPTY_RESPONSE, trimmed)
        ELSE
            LET d == DecisionFromJson(trimmed)
            IN  IF d.status \in {"throw", "fallthrough"}
                THEN GenerateDecision(trimmed, trimmed)
                ELSE d

(***************************************************************************)
(*                        extractCompletionText                            *)
(***************************************************************************)

KEY_CHOICES ==
    <<"c","h","o","i","c","e","s">>

KEY_TEXT ==
    <<"t","e","x","t">>

KEY_MESSAGE ==
    <<"m","e","s","s","a","g","e">>

KEY_CONTENT ==
    <<"c","o","n","t","e","n","t">>

KEY_VALUE ==
    <<"v","a","l","u","e">>

\* !value of a parsed JSON value.
Falsy(value) ==
    \/ value.t \in {"undefined", "null"}
    \/ value.t = "boolean" /\ value.s = <<"f","a","l","s","e">>
    \/ value.t = "number" /\ value.s \in { <<"0">>, <<"-","0">> }
    \/ value.t = "string" /\ value.s = <<>>

\* typeof value === "object" of a value that is not null.
IsObject(value) ==
    value.t \in {"object", "array"}

ExtractedText(text) ==
    [status |-> "returned", text |-> text]

\* The TypeError of reading a property of null.
ExtractThrown ==
    [status |-> "thrown", text |-> <<>>]

\* The callback of message.content.map.
PartText(part) ==
    IF Falsy(part) \/ ~IsObject(part) THEN <<>>
    ELSE IF JsProperty(part, KEY_TEXT).t = "string" THEN JsProperty(part, KEY_TEXT).s
    ELSE IF JsProperty(part, KEY_VALUE).t = "string" THEN JsProperty(part, KEY_VALUE).s
    ELSE <<>>

\* Array.prototype.join(" ").
RECURSIVE JoinWithSpace(_)
JoinWithSpace(parts) ==
    IF parts = <<>> THEN <<>>
    ELSE IF Len(parts) = 1 THEN parts[1]
    ELSE parts[1] \o <<" ">> \o JoinWithSpace(Tail(parts))

\* The texts of the content parts, without the blank ones.
ContentParts(content) ==
    SelectSeq([i \in 1..Len(content.items) |-> PartText(content.items[i])],
              LAMBDA part : trim(part) # <<>>)

\* extractCompletionText(payload), for a payload that JSON.parse has answered.
extractCompletionText(payload) ==
    IF Falsy(payload) \/ ~IsObject(payload) THEN ExtractedText(<<>>)
    ELSE LET choices == JsProperty(payload, KEY_CHOICES)
         IN  IF choices.t # "array" \/ choices.items = <<>> THEN ExtractedText(<<>>)
             ELSE LET firstChoice == choices.items[1]
                      text == JsProperty(firstChoice, KEY_TEXT)
                      message == JsProperty(firstChoice, KEY_MESSAGE)
                      content == JsProperty(message, KEY_CONTENT)
                  IN  IF firstChoice.t = "null" THEN ExtractThrown
                      ELSE IF text.t = "string" /\ trim(text.s) # <<>>
                          THEN ExtractedText(trim(text.s))
                      ELSE IF Falsy(message) THEN ExtractedText(<<>>)
                      ELSE IF content.t = "string" THEN ExtractedText(trim(content.s))
                      ELSE IF content.t = "array"
                          THEN ExtractedText(trim(JoinWithSpace(ContentParts(content))))
                      ELSE ExtractedText(<<>>)

(***************************************************************************)
(*                          Program state                                  *)
(***************************************************************************)

VARIABLES
    \* session and controls
    permissionsGranted, cameraStream, startBtnDisabled, stopBtnDisabled,
    transcribeBtnDisabled, wheelsLocked, gesturesLocked,
    \* calls in flight: invoke("register_agent"), invoke("stop_agent"), and the
    \* getUserMedia calls of ensurePermissions
    registerCalls, stopCalls, permissionCalls,
    \* auto-transcription loop; autoTimeouts is the window's table of pending
    \* timeouts installed by scheduleAutoTranscription
    autoTranscriptionEnabled, autoTranscriptionTimer, autoTimeouts,
    autoAwaitingBackgroundImage,
    \* capture pipeline; captureRuns and renderRuns are the invocations of
    \* triggerTranscriptionCapture and requestBackgroundImage that are suspended
    \* at an await
    isTranscriptionInProgress, isBackgroundImageInProgress, lastBackgroundPrompt,
    captureRuns, renderRuns, backgroundImageSrc,
    \* screen-name wheels; saveTimeouts is the window's table of pending
    \* timeouts installed by scheduleWheelStateSave, savedStates the sequence of
    \* invoke("save_wheel_state") calls issued
    wheelPositions, activeWheelIndex, wheelStateLoaded, wheelStateSaveTimeout,
    saveTimeouts, savedStates,
    \* gesture recognizer; gestureLoops counts the pending animation-frame
    \* callbacks of runGestureLoop, gestureStarts the startGestureRecognition
    \* calls suspended in ensureHandLandmarker
    handLandmarker, handLandmarkerInitPromise, gestureStarts, gestureLoopId,
    gestureLoops, lastGestureVideoTimeMs, handHistories, lastTwoHandDistance,
    gestureState,
    \* performance.now() and the camera's video time
    now, videoTimeMs,
    \* the reply under parseBackgroundPromptDecision and its result
    decisionReply, decisionResult,
    \* the parsed payload under extractCompletionText and its result
    extractPayload, extractResult,
    \* history: the steps that changed the wheels, with the time and the state
    \* they left
    wheelMutations,
    \* history: when a gesture command of each class was last emitted
    lastCommandAt,
    \* history: stopAgent has switched the running auto-loop off and
    \* registerAgent has not passed its checks since
    stoppedSinceStart,
    \* the handler that ran in the last step, and what it did
    lastEvent,
    \* the hub: the documents of the Firestore collection "agents" by
    \* normalized screen name, Timestamp.now().seconds, the requests that are
    \* suspended at an await, and what the last step of a handler did
    agents, hubNow, hubRequests, hubEvent,
    \* history: per name, when a lookup or a registration last reached the
    \* collection; the tunnelUrl of the last registration answered with 200
    \* ("unregistered" after an unregistration answered with 200, "none" at
    \* first and once a lookup has found the document expired)
    hubSeen, hubRegistered,
    \* the hub's proxy: the GET /api/background/latest that is under way in
    \* fetchBackgroundWithRetry, with what it has done and answered
    backgroundFetch,
    \* the Zoom app: its chain of pollBackgroundAndApply calls
    backgroundPoll

hubVars ==
    <<agents, hubNow, hubRequests, hubEvent, hubSeen, hubRegistered>>

appVars ==
    <<permissionsGranted, cameraStream, startBtnDisabled, stopBtnDisabled,
      transcribeBtnDisabled, wheelsLocked, gesturesLocked, registerCalls, stopCalls,
      permissionCalls, autoTranscriptionEnabled, autoTranscriptionTimer, autoTimeouts,
      autoAwaitingBackgroundImage, isTranscriptionInProgress,
      isBackgroundImageInProgress, lastBackgroundPrompt, captureRuns, renderRuns,
      backgroundImageSrc, wheelPositions, activeWheelIndex, wheelStateLoaded,
      wheelStateSaveTimeout, saveTimeouts, savedStates, handLandmarker,
      handLandmarkerInitPromise, gestureStarts, gestureLoopId, gestureLoops,
      lastGestureVideoTimeMs, handHistories, lastTwoHandDistance, gestureState, now,
      videoTimeMs, decisionReply, decisionResult, extractPayload, extractResult,
      wheelMutations, lastCommandAt, stoppedSinceStart, lastEvent>>

remoteVars ==
    <<backgroundFetch, backgroundPoll>>

vars ==
    <<hubVars, appVars, remoteVars>>

\* The program state as one record, so that a handler is a function from the
\* state before it to the state after it.  suppressWheelStateSave is false
\* whenever a handler starts; commands collects the gesture commands a handler
\* emits, micStatus the text triggerTranscriptionCapture writes to micStatusEl
\* ("" when the handler writes none); clapTriggered, seenLabels and
\* observations are locals of processHandLandmarks.
Cur ==
    [permissionsGranted |-> permissionsGranted, cameraStream |-> cameraStream,
     startBtnDisabled |-> startBtnDisabled, stopBtnDisabled |-> stopBtnDisabled,
     transcribeBtnDisabled |-> transcribeBtnDisabled, wheelsLocked |-> wheelsLocked,
     gesturesLocked |-> gesturesLocked, registerCalls |-> registerCalls,
     stopCalls |-> stopCalls, permissionCalls |-> permissionCalls,
     autoTranscriptionEnabled |-> autoTranscriptionEnabled,
     autoTranscriptionTimer |-> autoTranscriptionTimer, autoTimeouts |-> autoTimeouts,
     autoAwaitingBackgroundImage |-> autoAwaitingBackgroundImage,
     isTranscriptionInProgress |-> isTranscriptionInProgress,
     isBackgroundImageInProgress |-> isBackgroundImageInProgress,
     lastBackgroundPrompt |-> lastBackgroundPrompt, captureRuns |-> captureRuns,
     renderRuns |-> renderRuns, backgroundImageSrc |-> backgroundImageSrc,
     wheelPositions |-> wheelPositions, activeWheelIndex |-> activeWheelIndex,
     wheelStateLoaded |-> wheelStateLoaded,
     wheelStateSaveTimeout |-> wheelStateSaveTimeout, saveTimeouts |-> saveTimeouts,
     savedStates |-> savedStates, handLandmarker |-> handLandmarker,
     handLandmarkerInitPromise |-> handLandmarkerInitPromise,
     gestureStarts |-> gestureStarts, gestureLoopId |-> gestureLoopId,
     gestureLoops |-> gestureLoops, lastGestureVideoTimeMs |-> lastGestureVideoTimeMs,
     handHistories |-> handHistories, lastTwoHandDistance |-> lastTwoHandDistance,
     gestureState |-> gestureState, now |-> now, videoTimeMs |-> videoTimeMs,
     suppressWheelStateSave |-> FALSE, commands |-> <<>>, micStatus |-> "",
     clapTriggered |-> FALSE,
     seenLabels |-> {}, observations |-> <<>>]

\* The gesture commands: the wheel spins, the wheel switches and the clap.
CommandClass(command) ==
    CASE command \in {"WheelUp", "WheelDown"} -> "spin"
      [] command \in {"NextWheel", "PreviousWheel"} -> "switch"
      [] command = "Clap" -> "clap"

\* The step to state s, taken by the handler named in event.  s.commands are the
\* gesture commands the handler emitted, s.micStatus is what it wrote to
\* micStatusEl.
Commit(s, event) ==
    /\ permissionsGranted' = s.permissionsGranted
    /\ cameraStream' = s.cameraStream
    /\ startBtnDisabled' = s.startBtnDisabled
    /\ stopBtnDisabled' = s.stopBtnDisabled
    /\ transcribeBtnDisabled' = s.transcribeBtnDisabled
    /\ wheelsLocked' = s.wheelsLocked
    /\ gesturesLocked' = s.gesturesLocked
    /\ registerCalls' = s.registerCalls
    /\ stopCalls' = s.stopCalls
    /\ permissionCalls' = s.permissionCalls
    /\ autoTranscriptionEnabled' = s.autoTranscriptionEnabled
    /\ autoTranscriptionTimer' = s.autoTranscriptionTimer
    /\ autoTimeouts' = s.autoTimeouts
    /\ autoAwaitingBackgroundImage' = s.autoAwaitingBackgroundImage
    /\ isTranscriptionInProgress' = s.isTranscriptionInProgress
    /\ isBackgroundImageInProgress' = s.isBackgroundImageInProgress
    /\ lastBackgroundPrompt' = s.lastBackgroundPrompt
    /\ captureRuns' = s.captureRuns
    /\ renderRuns' = s.renderRuns
    /\ backgroundImageSrc' = s.backgroundImageSrc
    /\ wheelPositions' = s.wheelPositions
    /\ activeWheelIndex' = s.activeWheelIndex
    /\ wheelStateLoaded' = s.wheelStateLoaded
    /\ wheelStateSaveTimeout' = s.wheelStateSaveTimeout
    /\ saveTimeouts' = s.saveTimeouts
    /\ savedStates' = s.savedStates
    /\ handLandmarker' = s.handLandmarker
    /\ handLandmarkerInitPromise' = s.handLandmarkerInitPromise
    /\ gestureStarts' = s.gestureStarts
    /\ gestureLoopId' = s.gestureLoopId
    /\ gestureLoops' = s.gestureLoops
    /\ lastGestureVideoTimeMs' = s.lastGestureVideoTimeMs
    /\ handHistories' = s.handHistories
    /\ lastTwoHandDistance' = s.lastTwoHandDistance
    /\ gestureState' = s.gestureState
    /\ now' = s.now
    /\ videoTimeMs' = s.videoTimeMs
    /\ wheelMutations' =
           IF s.wheelPositions # wheelPositions \/ s.activeWheelIndex # activeWheelIndex
           THEN Append(wheelMutations, [at |-> s.now, positions |-> s.wheelPositions,
                                        activeIndex |-> s.activeWheelIndex])
           ELSE wheelMutations
    /\ lastCommandAt' =
           [class \in DOMAIN lastCommandAt |->
               IF \E i \in 1..Len(s.commands) : CommandClass(s.commands[i]) = class
               THEN s.now ELSE lastCommandAt[class]]
    /\ stoppedSinceStart' =
           IF /\ event \in {"stopAgent", "stopAgentResolved", "stopAgentRejected"}
              /\ autoTranscriptionEnabled
              /\ ~s.autoTranscriptionEnabled
           THEN TRUE
           ELSE IF event = "registerAgent" /\ s.registerCalls > registerCalls
                THEN FALSE
                ELSE stoppedSinceStart
    /\ lastEvent' = [op |-> event, commands |-> s.commands, micStatus |-> s.micStatus]
    /\ UNCHANGED <<decisionReply, decisionResult, extractPayload, extractResult>>
    /\ UNCHANGED <<hubVars, remoteVars>>


(***************************************************************************)
(*                       Constants of the program                          *)
(***************************************************************************)

AUTO_TRANSCRIPTION_RETRY_DELAY_MS ==
    1000

AUTO_TRANSCRIPTION_FALLBACK_DELAY_MS ==
    1000

AUTO_TRANSCRIPTION_POST_IMAGE_DELAY_MS ==
    300

\* The delay registerAgent passes to startAutoTranscriptionLoop.
AUTO_START_DELAY_MS ==
    500

WHEEL_STATE_SAVE_DELAY_MS ==
    400

WHEEL_COUNT ==
    20

\* Shortest screen name registerAgent accepts.
MIN_SCREEN_NAME_LENGTH ==
    3

CHARSET ==
    <<" ", "@", ".", "-">> \o LOWER_LETTERS
      \o <<"0","1","2","3","4","5","6","7","8","9">>

\* null of a timeout handle (window.setTimeout answers positive handles).
NoHandle ==
    0

\* null of lastBackgroundPrompt, and the src of an image that shows nothing.
NoText ==
    <<>>

\* lastGestureVideoTimeMs before the first frame.
NO_VIDEO_TIME ==
    -1

GESTURE_HISTORY_WINDOW_MS ==
    350

WHEEL_ADJUST_COOLDOWN_MS ==
    400

WHEEL_SWITCH_COOLDOWN_MS ==
    400

CLAP_COOLDOWN_MS ==
    2000

CLAP_MAX_INTERVAL_MS ==
    250

\* Lengths in the camera frame are in hundredths of its width and height:
\* SWIPE_MIN_DISPLACEMENT = 0.12, CLAP_DISTANCE_THRESHOLD = 0.12 and
\* CLAP_DELTA_THRESHOLD = -0.06 of the program.
SWIPE_MIN_DISPLACEMENT ==
    12

CLAP_DISTANCE_THRESHOLD ==
    12

CLAP_DELTA_THRESHOLD ==
    -6

\* numHands of the hand landmarker: the most hands a frame's result holds.
NUM_HANDS ==
    2

(***************************************************************************)
(*                         Bounds of the model                             *)
(***************************************************************************)

\* Calls of one kind (register_agent, stop_agent) that wait for their answer
\* at the same time.
MaxCalls ==
    2

\* startGestureRecognition calls that wait for the hand landmarker at once.
MaxGestureStarts ==
    2

\* Invocations of triggerTranscriptionCapture, and of requestBackgroundImage,
\* suspended at an await at once.
MaxRuns ==
    2

\* Steps that change the wheels.
MaxMutations ==
    3

\* The clock advances by this many milliseconds, or to the next due timeout.
TickMs ==
    100

\* The clock stops here when it started at 0.
MaxDialTime ==
    1200

\* performance.now() when the first gesture frame can arrive, and where the
\* clock stops then.
GestureStartTime ==
    2100

MaxGestureTime ==
    2400

MaxSwipeTime ==
    2700

MaxLockTime ==
    2200

\* Requests of the hub suspended at an await at one time.
MaxHubInFlight ==
    1

(***************************************************************************)
(*                          JavaScript arithmetic                          *)
(***************************************************************************)

\* a % n of JavaScript: the remainder has the sign of a.
JsRem(a, n) ==
    IF a >= 0 THEN a % n ELSE -((-a) % n)

Abs(a) ==
    IF a >= 0 THEN a ELSE -a

\* The sequence s without its i-th element.
RemoveAt(s, i) ==
    SubSeq(s, 1, i - 1) \o SubSeq(s, i + 1, Len(s))

\* A handle window.setTimeout has not handed out among those pending.
FreshHandle(timeouts) ==
    CHOOSE id \in 1..(Cardinality(timeouts) + 1) : \A t \in timeouts : t.id # id

(***************************************************************************)
(*                     Gesture recognition: start, stop                    *)
(***************************************************************************)

EmptyHistories ==
    [Left |-> <<>>, Right |-> <<>>]

stopGestureRecognition(s) ==
    [s EXCEPT !.gestureLoops = IF s.gestureLoopId THEN @ - 1 ELSE @,
              !.gestureLoopId = FALSE,
              !.lastGestureVideoTimeMs = NO_VIDEO_TIME,
              !.handHistories = EmptyHistories,
              !.lastTwoHandDistance = <<>>]

\* startGestureRecognition once ensureHandLandmarker has answered true: it
\* asks for the next animation frame without looking at gestureLoopId or
\* gesturesLocked again.
startGestureRecognitionReady(s) ==
    [s EXCEPT !.lastGestureVideoTimeMs = NO_VIDEO_TIME,
              !.gestureLoopId = TRUE,
              !.gestureLoops = @ + 1]

\* startGestureRecognition up to its await: with the landmarker loaded it goes
\* on in the same task, otherwise it waits for handLandmarkerInitPromise, which
\* ensureHandLandmarker creates when there is none.
startGestureRecognition(s) ==
    IF s.gestureLoopId \/ s.gesturesLocked THEN s
    ELSE IF s.handLandmarker THEN startGestureRecognitionReady(s)
    ELSE [s EXCEPT !.handLandmarkerInitPromise = TRUE, !.gestureStarts = @ + 1]

\* The waiting startGestureRecognition calls go on, one after the other, when
\* handLandmarkerInitPromise settles.
RECURSIVE ResumeGestureStarts(_, _)
ResumeGestureStarts(s, ready) ==
    IF s.gestureStarts = 0 THEN s
    ELSE LET one == [s EXCEPT !.gestureStarts = @ - 1]
         IN  ResumeGestureStarts(IF ready THEN startGestureRecognitionReady(one) ELSE one,
                                 ready)

ensureHandLandmarkerSettled(s, ok) ==
    ResumeGestureStarts([s EXCEPT !.handLandmarker = ok,
                                  !.handLandmarkerInitPromise = FALSE], ok)

(***************************************************************************)
(*                               Locks                                     *)
(***************************************************************************)

setWheelsLocked(s, locked) ==
    [s EXCEPT !.wheelsLocked = locked]

setGesturesLocked(s, locked) ==
    IF s.gesturesLocked = locked THEN s
    ELSE IF locked THEN stopGestureRecognition([s EXCEPT !.gesturesLocked = TRUE])
    ELSE IF s.permissionsGranted
        THEN startGestureRecognition([s EXCEPT !.gesturesLocked = FALSE])
    ELSE [s EXCEPT !.gesturesLocked = FALSE]

(***************************************************************************)
(*                      Auto-transcription loop                            *)
(***************************************************************************)

clearAutoTranscriptionTimer(s) ==
    IF s.autoTranscriptionTimer # NoHandle
    THEN [s EXCEPT !.autoTimeouts = {t \in @ : t.id # s.autoTranscriptionTimer},
                   !.autoTranscriptionTimer = NoHandle]
    ELSE s

\* A scheduleAutoTranscription that leaves the pending timeout in place.
scheduleAutoTranscriptionKeepsPending(s, delayMs, reason) ==
    IF ~s.autoTranscriptionEnabled THEN s
    ELSE LET id == FreshHandle(s.autoTimeouts)
         IN  [s EXCEPT !.autoTimeouts =
                           @ \cup {[id |-> id, delay |-> IF delayMs >= 0 THEN delayMs ELSE 0, reason |-> reason]},
                       !.autoTranscriptionTimer = id]

scheduleAutoTranscription(s, delayMs, reason) ==
    IF ~s.autoTranscriptionEnabled THEN s
    ELSE LET c == clearAutoTranscriptionTimer(s)
             id == FreshHandle(c.autoTimeouts)
         IN  [c EXCEPT !.autoTimeouts =
                           @ \cup {[id |-> id, delay |-> IF delayMs >= 0 THEN delayMs ELSE 0, reason |-> reason]},
                       !.autoTranscriptionTimer = id]

startAutoTranscriptionLoop(s, initialDelayMs) ==
    scheduleAutoTranscription(
        IF ~s.autoTranscriptionEnabled
        THEN [s EXCEPT !.autoTranscriptionEnabled = TRUE,
                       !.autoAwaitingBackgroundImage = FALSE]
        ELSE s,
        initialDelayMs, "loop start")

\* A stop that leaves autoAwaitingBackgroundImage as it is.
stopAutoTranscriptionLoopKeepsAwaiting(s) ==
    IF ~s.autoTranscriptionEnabled THEN s
    ELSE clearAutoTranscriptionTimer([s EXCEPT !.autoTranscriptionEnabled = FALSE])

stopAutoTranscriptionLoop(s) ==
    IF ~s.autoTranscriptionEnabled THEN s
    ELSE clearAutoTranscriptionTimer([s EXCEPT !.autoTranscriptionEnabled = FALSE,
                                               !.autoAwaitingBackgroundImage = FALSE])


(***************************************************************************)
(*                         Screen-name wheels                              *)
(***************************************************************************)

WheelIndexes ==
    0..(WHEEL_COUNT - 1)

getCharForPosition(position) ==
    CHARSET[JsRem(JsRem(position, Len(CHARSET)) + Len(CHARSET), Len(CHARSET)) + 1]

\* A replace that leaves the runs of whitespace as they are.
KeepWhitespace(s) ==
    s

\* String.prototype.replace(/\s+/g, " "): every run of whitespace becomes one
\* space.
RECURSIVE CollapseWhitespace(_)
CollapseWhitespace(s) ==
    IF s = <<>> THEN <<>>
    ELSE IF s[1] \in WhitespaceChars
        THEN <<" ">> \o CollapseWhitespace(SubSeq(s, SkipWs(s, 1), Len(s)))
    ELSE <<s[1]>> \o CollapseWhitespace(Tail(s))

getScreenNameFromWheels(s) ==
    CollapseWhitespace(trim([i \in 1..WHEEL_COUNT |->
                                getCharForPosition(s.wheelPositions[i - 1])]))

\* scheduleWheelStateSave without its clearTimeout of the pending timeout.
scheduleWheelStateSaveKeepsPending(s) ==
    IF ~s.wheelStateLoaded \/ s.suppressWheelStateSave THEN s
    ELSE LET id == FreshHandle(s.saveTimeouts)
         IN  [s EXCEPT !.saveTimeouts =
                           @ \cup {[id |-> id, due |-> s.now + WHEEL_STATE_SAVE_DELAY_MS]},
                       !.wheelStateSaveTimeout = id]

scheduleWheelStateSave(s) ==
    IF ~s.wheelStateLoaded \/ s.suppressWheelStateSave THEN s
    ELSE LET cleared == IF s.wheelStateSaveTimeout # NoHandle
                        THEN {t \in s.saveTimeouts : t.id # s.wheelStateSaveTimeout}
                        ELSE s.saveTimeouts
             id == FreshHandle(cleared)
         IN  [s EXCEPT !.saveTimeouts =
                           cleared \cup {[id |-> id, due |-> s.now + WHEEL_STATE_SAVE_DELAY_MS]},
                       !.wheelStateSaveTimeout = id]

\* persistWheelState up to its invoke("save_wheel_state"), run by the callback
\* of the timeout, which first forgets the handle.
persistWheelState(s) ==
    [s EXCEPT !.wheelStateSaveTimeout = NoHandle,
              !.savedStates = Append(@, [positions |-> s.wheelPositions,
                                         activeIndex |-> s.activeWheelIndex,
                                         at |-> s.now])]

\* The callback scheduleWheelStateSave hands to window.setTimeout.
wheelStateSaveTimeoutFired(s, id) ==
    persistWheelState([s EXCEPT !.saveTimeouts = {t \in @ : t.id # id}])

setActiveWheel(s, index) ==
    scheduleWheelStateSave(
        [s EXCEPT !.activeWheelIndex = JsRem(JsRem(index, WHEEL_COUNT) + WHEEL_COUNT,
                                             WHEEL_COUNT)])

adjustWheel(s, index, delta) ==
    scheduleWheelStateSave(
        [s EXCEPT !.wheelPositions[index] =
                      JsRem(@ + delta + Len(CHARSET), Len(CHARSET))])

\* The listeners buildWheel adds to a wheel: "wheel" (direction from deltaY) and
\* "click" (direction from the side of the midpoint) do the same with it.
wheelPointerHandler(s, index, direction) ==
    IF s.wheelsLocked THEN s
    ELSE adjustWheel(setActiveWheel(s, index), index, direction)

\* An applyPersistedWheelState that takes the stored positions as they are.
applyPersistedWheelStateRaw(s, state) ==
    IF Len(state.positions) # WHEEL_COUNT THEN s
    ELSE [s EXCEPT !.wheelPositions = [i \in WheelIndexes |-> state.positions[i + 1]],
                   !.activeWheelIndex = IF state.activeFinite THEN state.activeIndex ELSE @]

\* What is stored is of kind "null", "error" (the load fails) or "state", with
\* positions, a sequence of integers, and activeIndex, an integer when
\* activeFinite (Number.isFinite) holds.
applyPersistedWheelState(s, state) ==
    IF Len(state.positions) # WHEEL_COUNT THEN s
    ELSE LET sup == [s EXCEPT !.suppressWheelStateSave = TRUE,
                              !.wheelPositions =
                                  [i \in WheelIndexes |->
                                      JsRem(JsRem(state.positions[i + 1], Len(CHARSET))
                                            + Len(CHARSET), Len(CHARSET))]]
             resolvedActiveIndex == IF state.activeFinite THEN state.activeIndex
                                    ELSE s.activeWheelIndex
         IN  [setActiveWheel(sup, resolvedActiveIndex) EXCEPT
                  !.suppressWheelStateSave = FALSE]

loadPersistedWheelState(s, state) ==
    LET applied == IF state.kind = "state" THEN applyPersistedWheelState(s, state)
                   ELSE IF state.kind = "null" THEN setActiveWheel(s, s.activeWheelIndex)
                   ELSE s
    IN  scheduleWheelStateSave([applied EXCEPT !.wheelStateLoaded = TRUE])

(***************************************************************************)
(*                        Camera and microphone                            *)
(***************************************************************************)

\* startCameraAndMic up to getUserMedia: stopCameraAndMic drops the stream and
\* stops the gesture loop.
startCameraAndMicBegin(s) ==
    stopGestureRecognition([s EXCEPT !.cameraStream = FALSE])

\* startCameraAndMic once getUserMedia has answered (ok) or thrown.
startCameraAndMicSettled(s, ok) ==
    IF ~ok THEN s
    ELSE LET on == [s EXCEPT !.cameraStream = TRUE]
         IN  IF ~on.gesturesLocked THEN startGestureRecognition(on) ELSE on

\* ensurePermissions once its startCameraAndMic has settled.
ensurePermissionsSettled(s, ok) ==
    LET after == startCameraAndMicSettled([s EXCEPT !.permissionCalls = @ - 1], ok)
    IN  IF ok THEN [after EXCEPT !.permissionsGranted = TRUE,
                                 !.startBtnDisabled = FALSE,
                                 !.stopBtnDisabled = TRUE]
        ELSE after


(***************************************************************************)
(*                     Session: registerAgent, stopAgent                   *)
(***************************************************************************)

\* A registerAgent that asks no length of the screen name.
registerAgentAnyLength(s) ==
    IF ~s.permissionsGranted \/ ~s.cameraStream THEN s
    ELSE IF getScreenNameFromWheels(s) = <<>> THEN s
    ELSE setGesturesLocked(
             setWheelsLocked([s EXCEPT !.startBtnDisabled = TRUE,
                                       !.stopBtnDisabled = FALSE,
                                       !.registerCalls = @ + 1], TRUE),
             TRUE)

\* registerAgent up to its invoke("register_agent").  ensureCapture answers in
\* the same task, cameraStream being set whenever permissionsGranted is.
registerAgent(s) ==
    IF ~s.permissionsGranted \/ ~s.cameraStream THEN s
    ELSE LET screenName == getScreenNameFromWheels(s)
         IN  IF screenName = <<>> THEN s
             ELSE IF Len(screenName) < MIN_SCREEN_NAME_LENGTH THEN s
             ELSE setGesturesLocked(
                      setWheelsLocked([s EXCEPT !.startBtnDisabled = TRUE,
                                                !.stopBtnDisabled = FALSE,
                                                !.registerCalls = @ + 1], TRUE),
                      TRUE)

registerAgentResolved(s) ==
    startAutoTranscriptionLoop([s EXCEPT !.registerCalls = @ - 1], AUTO_START_DELAY_MS)

registerAgentRejected(s) ==
    [setGesturesLocked(setWheelsLocked([s EXCEPT !.registerCalls = @ - 1], FALSE), FALSE)
        EXCEPT !.startBtnDisabled = FALSE, !.stopBtnDisabled = TRUE]

\* stopAgent up to its invoke("stop_agent").
stopAgent(s) ==
    [stopAutoTranscriptionLoop(s) EXCEPT !.stopCalls = @ + 1]

stopAgentFinally(s) ==
    [stopAutoTranscriptionLoop(s) EXCEPT !.startBtnDisabled = FALSE,
                                         !.stopBtnDisabled = TRUE]

stopAgentResolved(s) ==
    stopAgentFinally(
        setGesturesLocked(setWheelsLocked([s EXCEPT !.stopCalls = @ - 1], FALSE), FALSE))

stopAgentRejected(s) ==
    stopAgentFinally([s EXCEPT !.stopCalls = @ - 1])

handleClapSubmit(s) ==
    IF s.startBtnDisabled \/ s.gesturesLocked THEN s ELSE registerAgent(s)

(***************************************************************************)
(*                          Capture pipeline                               *)
(***************************************************************************)

\* requestBackgroundImage up to its invoke("generate_background_image").
requestBackgroundImageStart(s, trimmed) ==
    [s EXCEPT !.autoAwaitingBackgroundImage = IF s.autoTranscriptionEnabled THEN TRUE ELSE @,
              !.isBackgroundImageInProgress = TRUE,
              !.renderRuns = Append(@, trimmed)]

requestBackgroundImageNoBusyCheck(s, prompt) ==
    IF trim(prompt) = <<>> THEN s ELSE requestBackgroundImageStart(s, trim(prompt))

requestBackgroundImage(s, prompt) ==
    IF trim(prompt) = <<>> THEN s
    ELSE IF s.isBackgroundImageInProgress THEN s
    ELSE requestBackgroundImageStart(s, trim(prompt))

\* A render that clears its guard only when it got an image.
requestBackgroundImageSettledBusyAfterError(s, i, ok) ==
    scheduleAutoTranscription(
        [s EXCEPT !.backgroundImageSrc = IF ok THEN s.renderRuns[i] ELSE @,
                  !.renderRuns = RemoveAt(@, i),
                  !.isBackgroundImageInProgress = IF ok THEN FALSE ELSE @,
                  !.autoAwaitingBackgroundImage = FALSE],
        AUTO_TRANSCRIPTION_POST_IMAGE_DELAY_MS, "after background preview")

\* requestBackgroundImage from the answer of its invoke on: run i of renderRuns
\* gets a data URL (ok) or fails.  The data URL is written as the prompt it shows.
requestBackgroundImageSettled(s, i, ok) ==
    scheduleAutoTranscription(
        [s EXCEPT !.backgroundImageSrc = IF ok THEN s.renderRuns[i] ELSE @,
                  !.renderRuns = RemoveAt(@, i),
                  !.isBackgroundImageInProgress = FALSE,
                  !.autoAwaitingBackgroundImage = FALSE],
        AUTO_TRANSCRIPTION_POST_IMAGE_DELAY_MS, "after background preview")

\* triggerTranscriptionCapture past its guard, up to its first await that waits:
\* getUserMedia when there is no stream, the recording otherwise.
triggerTranscriptionCaptureStart(s) ==
    LET busy == [s EXCEPT !.autoAwaitingBackgroundImage = FALSE,
                          !.isTranscriptionInProgress = TRUE]
    IN  IF busy.cameraStream
        THEN [busy EXCEPT !.transcribeBtnDisabled = TRUE,
                          !.micStatus = "Recording 12-second microphone sample...",
                          !.captureRuns = Append(@, "recording")]
        ELSE startCameraAndMicBegin([busy EXCEPT !.captureRuns = Append(@, "ensureCapture")])

triggerTranscriptionCaptureNoBusyCheck(s) ==
    triggerTranscriptionCaptureStart(s)

triggerTranscriptionCapture(s) ==
    IF s.isTranscriptionInProgress
    THEN scheduleAutoTranscription(s, AUTO_TRANSCRIPTION_RETRY_DELAY_MS,
                                   "capture already running")
    ELSE triggerTranscriptionCaptureStart(s)

\* A finally block that schedules nothing.
triggerTranscriptionCaptureFinallyNoTimer(s, i) ==
    [s EXCEPT !.transcribeBtnDisabled = FALSE,
              !.isTranscriptionInProgress = FALSE,
              !.captureRuns = RemoveAt(@, i)]

\* A finally block that does not look at autoAwaitingBackgroundImage.
triggerTranscriptionCaptureFinallyNotAwaiting(s, i) ==
    scheduleAutoTranscription([s EXCEPT !.transcribeBtnDisabled = FALSE,
                                        !.isTranscriptionInProgress = FALSE,
                                        !.captureRuns = RemoveAt(@, i)],
                              AUTO_TRANSCRIPTION_FALLBACK_DELAY_MS,
                              "post-transcription fallback")

\* The finally block of triggerTranscriptionCapture, for run i of captureRuns.
triggerTranscriptionCaptureFinally(s, i) ==
    LET done == [s EXCEPT !.transcribeBtnDisabled = FALSE,
                          !.isTranscriptionInProgress = FALSE,
                          !.captureRuns = RemoveAt(@, i)]
    IN  IF done.autoTranscriptionEnabled /\ ~done.autoAwaitingBackgroundImage
        THEN scheduleAutoTranscription(done, AUTO_TRANSCRIPTION_FALLBACK_DELAY_MS,
                                       "post-transcription fallback")
        ELSE done

\* A handler that asks for an image whatever the decision is.
handleVirtualBackgroundPromptAnyDecision(s, completion) ==
    requestBackgroundImage([s EXCEPT !.lastBackgroundPrompt = completion], completion)

\* handleVirtualBackgroundPrompt once generateVirtualBackgroundPrompt has the
\* model's completion text.
handleVirtualBackgroundPrompt(s, completion) ==
    LET decision == parseBackgroundPromptDecision(completion)
    IN  IF decision.status = "generate"
        THEN requestBackgroundImage([s EXCEPT !.lastBackgroundPrompt = decision.prompt],
                                    decision.prompt)
        ELSE s

\* A cycle that takes a response it cannot parse as the transcript itself.
TranscriptOfRawText(responseText) ==
    LET parsed == JSONparse(responseText)
        extracted == extractCompletionText(parsed.v)
    IN  IF ~parsed.ok THEN trim(responseText)
        ELSE IF extracted.status = "thrown" THEN <<>>
        ELSE extracted.text

\* The transcript triggerTranscriptionCapture takes from the body of a
\* response: empty when JSON.parse or extractCompletionText throws.
TranscriptOf(responseText) ==
    LET parsed == JSONparse(responseText)
        extracted == extractCompletionText(parsed.v)
    IN  IF ~parsed.ok THEN <<>>
        ELSE IF extracted.status = "thrown" THEN <<>>
        ELSE extracted.text

\* What an await of triggerTranscriptionCapture can answer, per stage: "ok" or
\* "throw" (for the requests, also a response that is not ok).
CaptureOutcomes(stage) ==
    CASE stage = "ensureCapture" -> {"ok", "throw"}
      [] stage = "recording" -> {"ok", "throw"}
      [] stage = "encoding" -> {"ok", "throw"}
      [] stage = "transcribing" -> {"ok", "throw"}
      [] stage = "deciding" -> {"ok", "throw"}

\* Run i of captureRuns goes on from the await it is suspended at.  reply is
\* the text the call answered with: the body of the transcription response,
\* the completion text of the background-prompt model.
triggerTranscriptionCaptureResume(s, i, outcome, reply) ==
    LET stage == s.captureRuns[i]
        at(next, status) == [s EXCEPT !.captureRuns[i] = next, !.micStatus = status]
        failed == [s EXCEPT !.micStatus = "Transcription failed: "]
    IN  CASE stage = "ensureCapture" ->
               LET cam == startCameraAndMicSettled(s, outcome = "ok")
               IN  IF outcome = "ok"
                   THEN [cam EXCEPT !.transcribeBtnDisabled = TRUE,
                                    !.micStatus = "Recording 12-second microphone sample...",
                                    !.captureRuns[i] = "recording"]
                   ELSE scheduleAutoTranscription(
                            [cam EXCEPT !.isTranscriptionInProgress = FALSE,
                                        !.micStatus = "Unable to access microphone. Grant permissions and try again.",
                                        !.captureRuns = RemoveAt(@, i)],
                            AUTO_TRANSCRIPTION_RETRY_DELAY_MS, "microphone unavailable")
          [] stage = "recording" ->
               IF outcome = "ok" THEN at("encoding", "Transcribing sample...")
               ELSE triggerTranscriptionCaptureFinally(failed, i)
          [] stage = "encoding" ->
               IF outcome = "ok" THEN at("transcribing", "")
               ELSE triggerTranscriptionCaptureFinally(failed, i)
          [] stage = "transcribing" ->
               IF outcome # "ok" THEN triggerTranscriptionCaptureFinally(failed, i)
               ELSE IF TranscriptOf(reply) # <<>> THEN at("deciding", "Transcript: ")
               ELSE triggerTranscriptionCaptureFinally(
                        [s EXCEPT !.micStatus =
                                      "Transcription succeeded, but no text was returned."],
                        i)
          [] stage = "deciding" ->
               IF outcome = "ok"
               THEN triggerTranscriptionCaptureFinally(
                        handleVirtualBackgroundPrompt(s, reply), i)
               ELSE triggerTranscriptionCaptureFinally(s, i)

\* The callback scheduleAutoTranscription hands to window.setTimeout.
autoTranscriptionTimeout(s, id) ==
    LET fired == [s EXCEPT !.autoTimeouts = {t \in @ : t.id # id},
                           !.autoTranscriptionTimer = NoHandle]
    IN  IF ~fired.autoTranscriptionEnabled THEN fired
        ELSE triggerTranscriptionCapture(fired)


(***************************************************************************)
(*                        Gesture classification                           *)
(***************************************************************************)

\* A detected hand is [label, open, x, y]: its handedness ("Left", "Right", or
\* "" when the result names neither), what isPalmOpen answers for its
\* landmarks, and the centre of its landmarks.

RECURSIVE DropOlderThan(_, _)
DropOlderThan(history, cutoff) ==
    IF history # <<>> /\ history[1].time < cutoff
    THEN DropOlderThan(Tail(history), cutoff)
    ELSE history

pushHandSample(s, label, sample) ==
    [s EXCEPT !.handHistories[label] =
                  DropOlderThan(Append(@, sample), sample.time - GESTURE_HISTORY_WINDOW_MS)]

clearHandHistory(s, label) ==
    [s EXCEPT !.handHistories[label] = <<>>]

NoDisplacement ==
    [valid |-> FALSE, dx |-> 0, dy |-> 0, elapsedMs |-> 0]

getRecentDisplacement(history) ==
    IF Len(history) < 2 THEN NoDisplacement
    ELSE LET first == history[1]
             last == history[Len(history)]
         IN  IF last.time - first.time <= 0 THEN NoDisplacement
             ELSE [valid |-> TRUE, dx |-> last.x - first.x, dy |-> last.y - first.y,
                   elapsedMs |-> last.time - first.time]

\* Math.hypot(dx, dy), kept as its square.
SquaredDistance(a, b) ==
    (a.x - b.x) * (a.x - b.x) + (a.y - b.y) * (a.y - b.y)

\* sqrt(distance2) - sqrt(previous2) <= delta for a delta <= 0, in integers:
\* sqrt(d) + k <= sqrt(p) exactly when p - d - k*k >= 0 and 4*k*k*d <= (p - d - k*k)^2.
DistanceDeltaAtMost(distance2, previous2, delta) ==
    LET k == -delta
        r == previous2 - distance2 - k * k
    IN  r >= 0 /\ 4 * k * k * distance2 <= r * r

DistanceDeltaBelow(distance2, previous2, delta) ==
    LET k == -delta
        r == previous2 - distance2 - k * k
    IN  r > 0 /\ 4 * k * k * distance2 < r * r

\* A recognizer that has no cooldown between claps.
ClapCooldownIgnored(s) ==
    TRUE

\* now - gestureState.lastClapTime > CLAP_COOLDOWN_MS
ClapCooldownElapsed(s) ==
    s.now - s.gestureState.lastClapTime > CLAP_COOLDOWN_MS

\* centers.find((entry) => entry.label === label): the first one, <<>> if none.
FindObservation(centers, label) ==
    SelectSeq(centers, LAMBDA entry : entry.label = label)

\* handleClapDetection, with what it returns in clapTriggered.  The call of
\* handleClapSubmit goes on after the frame (see runGestureLoop).
handleClapDetection(s, centers) ==
    LET left == FindObservation(centers, "Left")
        right == FindObservation(centers, "Right")
    IN  IF left = <<>> \/ right = <<>>
        THEN [s EXCEPT !.lastTwoHandDistance = <<>>, !.clapTriggered = FALSE]
        ELSE LET distance2 == SquaredDistance(left[1], right[1])
                 last == s.lastTwoHandDistance
             IN  IF /\ last # <<>>
                    /\ s.now - last[1].time <= CLAP_MAX_INTERVAL_MS
                    /\ DistanceDeltaAtMost(distance2, last[1].distance2, CLAP_DELTA_THRESHOLD)
                    /\ distance2 <= CLAP_DISTANCE_THRESHOLD * CLAP_DISTANCE_THRESHOLD
                    /\ ClapCooldownElapsed(s)
                 THEN [s EXCEPT !.gestureState.lastClapTime = s.now,
                                !.lastTwoHandDistance = <<>>,
                                !.commands = Append(@, "Clap"),
                                !.clapTriggered = TRUE]
                 ELSE [s EXCEPT !.lastTwoHandDistance =
                                    <<[distance2 |-> distance2, time |-> s.now]>>,
                                !.clapTriggered = FALSE]

\* The forEach of processHandLandmarks over the detected hands: s.seenLabels,
\* s.observations and the histories after it.
RECURSIVE ScanHands(_, _)
ScanHands(s, hands) ==
    IF hands = <<>> THEN s
    ELSE LET hand == hands[1]
             seen == [s EXCEPT !.seenLabels = @ \cup {hand.label}]
         IN  ScanHands(
                 IF hand.label = "" THEN s
                 ELSE IF ~hand.open THEN clearHandHistory(seen, hand.label)
                 ELSE [pushHandSample(seen, hand.label,
                                      [x |-> hand.x, y |-> hand.y, time |-> s.now])
                          EXCEPT !.observations =
                                     Append(@, [label |-> hand.label, x |-> hand.x,
                                                y |-> hand.y])],
                 Tail(hands))

\* A displacement that passes for a vertical swipe whatever its horizontal part.
IsVerticalSwipeAnyAxis(d) ==
    /\ d.valid
    /\ d.elapsedMs <= GESTURE_HISTORY_WINDOW_MS
    /\ Abs(d.dy) >= SWIPE_MIN_DISPLACEMENT

\* The condition of the first loop on a displacement.
IsVerticalSwipe(d) ==
    /\ d.valid
    /\ d.elapsedMs <= GESTURE_HISTORY_WINDOW_MS
    /\ Abs(d.dy) >= SWIPE_MIN_DISPLACEMENT
    /\ Abs(d.dy) > Abs(d.dx)

\* A spin cooldown that is over when exactly WHEEL_ADJUST_COOLDOWN_MS have passed.
AdjustCooldownReached(s) ==
    s.now - s.gestureState.lastWheelAdjustTime >= WHEEL_ADJUST_COOLDOWN_MS

\* now - gestureState.lastWheelAdjustTime > WHEEL_ADJUST_COOLDOWN_MS
AdjustCooldownElapsed(s) ==
    s.now - s.gestureState.lastWheelAdjustTime > WHEEL_ADJUST_COOLDOWN_MS

\* now - gestureState.lastWheelSwitchTime > WHEEL_SWITCH_COOLDOWN_MS
SwitchCooldownElapsed(s) ==
    s.now - s.gestureState.lastWheelSwitchTime > WHEEL_SWITCH_COOLDOWN_MS

\* The first loop of processHandLandmarks: -1 ("Wheel up") or 1 ("Wheel down")
\* of the first observation whose hand moved far enough vertically, 0 if none.
RECURSIVE VerticalSwipe(_, _)
VerticalSwipe(histories, observations) ==
    IF observations = <<>> THEN 0
    ELSE LET d == getRecentDisplacement(histories[observations[1].label])
         IN  IF /\ IsVerticalSwipe(d)
                /\ (d.dy <= -SWIPE_MIN_DISPLACEMENT \/ d.dy >= SWIPE_MIN_DISPLACEMENT)
             THEN IF d.dy <= -SWIPE_MIN_DISPLACEMENT THEN -1 ELSE 1
             ELSE VerticalSwipe(histories, Tail(observations))

\* The second loop: 1 ("Next wheel", dx <= -0.12) or -1 ("Previous wheel"), 0 if
\* no hand moved far enough horizontally.
RECURSIVE HorizontalSwipe(_, _)
HorizontalSwipe(histories, observations) ==
    IF observations = <<>> THEN 0
    ELSE LET d == getRecentDisplacement(histories[observations[1].label])
         IN  IF /\ d.valid
                /\ d.elapsedMs <= GESTURE_HISTORY_WINDOW_MS
                /\ Abs(d.dx) >= SWIPE_MIN_DISPLACEMENT
                /\ Abs(d.dx) > Abs(d.dy)
                /\ (d.dx <= -SWIPE_MIN_DISPLACEMENT \/ d.dx >= SWIPE_MIN_DISPLACEMENT)
             THEN IF d.dx <= -SWIPE_MIN_DISPLACEMENT THEN 1 ELSE -1
             ELSE HorizontalSwipe(histories, Tail(observations))


\* processHandLandmarks past its check of gesturesLocked.
processHandLandmarksUnlocked(s, hands) ==
    IF hands = <<>>
        THEN [clearHandHistory(clearHandHistory(s, "Left"), "Right")
                 EXCEPT !.lastTwoHandDistance = <<>>]
    ELSE LET scanned == ScanHands(s, hands)
             seen == [scanned EXCEPT
                         !.handHistories =
                             [label \in DOMAIN @ |->
                                 IF label \in scanned.seenLabels THEN @[label] ELSE <<>>]]
         IN  IF seen.observations = <<>>
             THEN [seen EXCEPT !.lastTwoHandDistance = <<>>]
             ELSE LET v == IF AdjustCooldownElapsed(seen)
                           THEN VerticalSwipe(seen.handHistories, seen.observations)
                           ELSE 0
                      spun == IF v = 0 THEN seen
                              ELSE [adjustWheel(seen, seen.activeWheelIndex, v) EXCEPT
                                       !.gestureState.lastWheelAdjustTime = s.now,
                                       !.commands = Append(@, IF v = -1 THEN "WheelUp"
                                                              ELSE "WheelDown")]
                      h == IF v = 0 /\ SwitchCooldownElapsed(spun)
                           THEN HorizontalSwipe(spun.handHistories, spun.observations)
                           ELSE 0
                      switched == IF h = 0 THEN spun
                                  ELSE [setActiveWheel(spun, spun.activeWheelIndex + h) EXCEPT
                                           !.gestureState.lastWheelSwitchTime = s.now,
                                           !.commands = Append(@, IF h = 1 THEN "NextWheel"
                                                                  ELSE "PreviousWheel")]
                  IN  handleClapDetection(switched, switched.observations)

processHandLandmarksNoLockCheck(s, hands) ==
    processHandLandmarksUnlocked(s, hands)

processHandLandmarks(s, hands) ==
    IF s.gesturesLocked THEN s ELSE processHandLandmarksUnlocked(s, hands)

\* One animation-frame callback.  video is what the camera preview holds:
\* "loading" (no current data), "same" (the frame seen last) or "next".  The
\* registerAgent that a clap starts through handleClapSubmit goes on once the
\* callback has returned, before any other task.
runGestureLoop(s, video, hands) ==
    IF ~s.handLandmarker
    THEN [s EXCEPT !.gestureLoopId = FALSE, !.gestureLoops = @ - 1]
    ELSE IF video = "loading" \/ s.videoTimeMs = s.lastGestureVideoTimeMs
        THEN [s EXCEPT !.gestureLoopId = TRUE]
    ELSE LET processed ==
                 processHandLandmarks([s EXCEPT !.lastGestureVideoTimeMs = s.videoTimeMs],
                                      hands)
             again == [processed EXCEPT !.gestureLoopId = TRUE]
         IN  IF again.clapTriggered THEN handleClapSubmit(again) ELSE again


(***************************************************************************)
(*                     The hub: src/hub/index.js                           *)
(***************************************************************************)

AGENT_URL_TTL_MINUTES ==
    5

\* getActiveAgent refreshes lastSeenAt when it is at least this many seconds old.
LAST_SEEN_REFRESH_SECONDS ==
    30

\* A screenName of a request is [string |-> TRUE, chars |-> its characters], or
\* [string |-> FALSE] when the request carries none.
normalizeScreenName(input) ==
    IF ~input.string THEN <<>>
    ELSE CollapseWhitespace(toLowerCase(trim(input.chars)))

\* A snapshot whose exists is false.
NoAgent ==
    [exists |-> FALSE]

\* What getActiveAgent makes of the snapshot doc at the time now: "none" (it
\* returns null and writes nothing), "expired" (it deletes the document and
\* returns null) or "active" (it returns tunnelUrl, after an update of
\* lastSeenAt when refresh is set).
getActiveAgent(doc, nowSeconds) ==
    IF ~doc.exists \/ doc.tunnelUrl = ""
    THEN [decision |-> "none", tunnelUrl |-> "", refresh |-> FALSE]
    ELSE IF doc.lastSeenAt < nowSeconds - AGENT_URL_TTL_MINUTES * 60
        THEN [decision |-> "expired", tunnelUrl |-> "", refresh |-> FALSE]
    ELSE [decision |-> "active", tunnelUrl |-> doc.tunnelUrl,
          refresh |-> nowSeconds - doc.lastSeenAt >= LAST_SEEN_REFRESH_SECONDS]

\* The screenName values of the requests: none, blank, and two spellings of
\* the name "a b".
HubNames ==
    { [string |-> FALSE],
      [string |-> TRUE, chars |-> <<" ">>],
      [string |-> TRUE, chars |-> <<"a", " ", "b">>],
      [string |-> TRUE, chars |-> <<" ", "A", " ", "\t", "B", " ">>] }

HubKeys ==
    { normalizeScreenName(name) : name \in HubNames } \ { <<>> }

\* The tunnelUrl values of the requests; "" stands for none.
HubUrls ==
    {"", "https://one", "https://two"}

\* The hub with an empty collection and no request in flight.
HubStarted ==
    /\ agents = [key \in HubKeys |-> NoAgent]
    /\ hubNow = 0
    /\ hubRequests = {}
    /\ hubEvent = [op |-> "listen", route |-> "", key |-> <<>>, status |-> 0,
                   tunnelUrl |-> "", decision |-> ""]
    /\ hubSeen = [key \in HubKeys |-> 0]
    /\ hubRegistered = [key \in HubKeys |-> "none"]

(***************************************************************************)
(*          The hub's background proxy: fetchBackgroundWithRetry           *)
(***************************************************************************)

BACKGROUND_PROXY_TIMEOUT_MS ==
    35000

BACKGROUND_PROXY_RETRIES ==
    3

\* What axios.get can come to for one request to the tunnel: a response of any
\* status (validateStatus accepts all), an error that carries a response, or a
\* transport failure: at once (the connection is refused) or at the timeout.
\* version is the x-background-version header ("" for none), data whether the
\* response has a body.
TunnelResponse(kind, status, version, data) ==
    [kind |-> kind, status |-> status, version |-> version, data |-> data, ms |-> 0]

TransportFailure(ms) ==
    [kind |-> "error", status |-> 0, version |-> "", data |-> FALSE, ms |-> ms]

NoOutcome ==
    [kind |-> "none", status |-> 0, version |-> "", data |-> FALSE, ms |-> 0]

TunnelOutcomes ==
    { TunnelResponse(kind, status, version, data) :
          kind \in {"response", "errorResponse"}, status \in {200, 204, 404, 500},
          version \in {"", "7"}, data \in BOOLEAN }
        \cup { TransportFailure(0), TransportFailure(BACKGROUND_PROXY_TIMEOUT_MS) }

\* What the route has sent: status 0 for nothing yet.
NoProxyAnswer ==
    [status |-> 0, version |-> "", body |-> FALSE]

\* No GET /api/background/latest is under way.  phase is "idle", "request"
\* (axios.get is awaited), "delay" (the timeout before the retry is awaited) or
\* "answered"; requests counts the calls of axios.get, failures the transport
\* failures, elapsedMs the time the call has taken; outcome is what the last
\* request came to.
NoBackgroundFetch ==
    [phase |-> "idle", attempt |-> 0, requests |-> 0, failures |-> 0, elapsedMs |-> 0,
     delayMs |-> 0, outcome |-> NoOutcome, answer |-> NoProxyAnswer]

\* The route once getActiveAgent has returned an agent: fetchBackgroundWithRetry
\* enters its loop and issues the first request.
fetchBackgroundWithRetry ==
    [NoBackgroundFetch EXCEPT !.phase = "request", !.requests = 1]

\* The route with the response fetchBackgroundWithRetry has returned.
sendBackground(f, response) ==
    [f EXCEPT !.phase = "answered",
              !.answer = [status |-> response.status, version |-> response.version,
                          body |-> response.status # 204 /\ response.data]]

\* The catch of the route for an error without a response.
sendBadGateway(f) ==
    [f EXCEPT !.phase = "answered",
              !.answer = [status |-> 502, version |-> "", body |-> TRUE]]

Min(a, b) ==
    IF a <= b THEN a ELSE b

\* A fetchBackgroundWithRetry that asks the tunnel again after a response of a
\* status from 500 on.
axiosGetSettledRetriesServerErrors(f, outcome) ==
    LET settled == [f EXCEPT !.outcome = outcome, !.elapsedMs = @ + outcome.ms]
    IN  IF outcome.kind # "error" /\ outcome.status < 500 THEN sendBackground(settled, outcome)
        ELSE [settled EXCEPT !.phase = "delay",
                             !.failures = IF outcome.kind = "error" THEN @ + 1 ELSE @,
                             !.delayMs = Min(1000, 250 * (f.attempt + 1))]

\* The awaited axios.get has come to outcome.
axiosGetSettled(f, outcome) ==
    LET settled == [f EXCEPT !.outcome = outcome, !.elapsedMs = @ + outcome.ms]
    IN  IF outcome.kind # "error" THEN sendBackground(settled, outcome)
        ELSE [settled EXCEPT !.phase = "delay",
                             !.failures = @ + 1,
                             !.delayMs = Min(1000, 250 * (f.attempt + 1))]

\* The timeout after a failed request has run out: the next turn of the loop,
\* or the throw of lastError when the attempts are used up.
retryDelayElapsed(f) ==
    LET next == [f EXCEPT !.attempt = @ + 1, !.elapsedMs = @ + f.delayMs, !.delayMs = 0]
    IN  IF next.attempt < BACKGROUND_PROXY_RETRIES
        THEN [next EXCEPT !.phase = "request", !.requests = @ + 1]
        ELSE sendBadGateway(next)

(***************************************************************************)
(*          The Zoom app's poll loop: src/hub/zoom_app.js                  *)
(***************************************************************************)

baseDelay ==
    200

maxDelay ==
    4000

Max(a, b) ==
    IF a >= b THEN a ELSE b

\* The Zoom app before initializeZoomSdk has started the polling.  phase is
\* "idle", "fetch", "text", "blob", "apply" (the awaits of fetch,
\* response.text, response.blob and setVirtualBackground) or "wait" (the
\* timeout before the next call); backoffAttempt and lastVersion are the
\* arguments of the call under way, lastVersion being what it sends as since;
\* version is what the call has read from the response; waitMs and next are
\* the timeout awaited and the arguments of the call after it; sdkApplies is
\* whether zoomSdk exposes setVirtualBackground.  History: fetched holds the
\* versions of the backgrounds got, applied those setVirtualBackground has
\* accepted.
NoBackgroundPoll ==
    [phase |-> "idle", backoffAttempt |-> 0, lastVersion |-> "0", version |-> "",
     waitMs |-> 0, next |-> [backoffAttempt |-> 0, lastVersion |-> "0"],
     sdkApplies |-> TRUE, status |-> 0, fetched |-> {}, applied |-> {}]

backoffMs(p) ==
    Min(maxDelay, baseDelay * 2 ^ p.backoffAttempt)

\* pollBackgroundAndApply(screenName, backoffAttempt, lastVersion) up to its
\* fetch.
pollBackgroundAndApply(p, backoffAttempt, lastVersion) ==
    [p EXCEPT !.phase = "fetch", !.backoffAttempt = backoffAttempt,
              !.lastVersion = lastVersion, !.version = "", !.waitMs = 0, !.status = 0]

\* `await wait(ms); return pollBackgroundAndApply(screenName,
\* Math.min(backoffAttempt + 1, 7), lastVersion)`, up to the timeout.
waitThenPoll(p, ms, lastVersion) ==
    [p EXCEPT !.phase = "wait", !.waitMs = ms,
              !.next = [backoffAttempt |-> Min(p.backoffAttempt + 1, 7),
                        lastVersion |-> lastVersion]]

\* The outer catch of pollBackgroundAndApply.
pollingError(p) ==
    waitThenPoll(p, Max(500, backoffMs(p)), p.lastVersion)

\* What fetch can come to: a response with its status and its
\* x-background-version header ("" for none), or a rejection.
FetchResponse(status, version) ==
    [kind |-> "response", status |-> status, version |-> version]

FetchRejected ==
    [kind |-> "error", status |-> 0, version |-> ""]

FetchOutcomes ==
    { FetchResponse(status, version) :
          status \in {200, 204, 404, 500, 502}, version \in {"", "1", "2"} }
        \cup { FetchRejected }

\* The awaited fetch has come to outcome.
fetchSettled(p, outcome) ==
    LET got == [p EXCEPT !.status = outcome.status]
    IN  IF outcome.kind = "error" THEN pollingError(got)
        ELSE IF outcome.status = 204 THEN pollBackgroundAndApply(got, 0, p.lastVersion)
        ELSE IF outcome.status = 404
            THEN waitThenPoll(got, Max(500, backoffMs(p)), p.lastVersion)
        ELSE IF ~(outcome.status >= 200 /\ outcome.status <= 299)
            THEN [got EXCEPT !.phase = "text"]
        ELSE [got EXCEPT !.phase = "blob",
                         !.version = IF outcome.version # "" THEN outcome.version
                                     ELSE p.lastVersion]

\* The awaited response.text() of an answer that is not ok has settled.
textSettled(p, ok) ==
    IF ok THEN waitThenPoll(p, Max(500, backoffMs(p)), p.lastVersion)
    ELSE pollingError(p)

\* The awaited response.blob() has settled: the background is got, and handed
\* to setVirtualBackground when the SDK exposes it.
blobSettled(p, ok) ==
    LET got == [p EXCEPT !.fetched = @ \cup {p.version}]
    IN  IF ~ok THEN pollingError(p)
        ELSE IF ~p.sdkApplies
            THEN waitThenPoll(got, Max(1000, backoffMs(p)), p.version)
        ELSE [got EXCEPT !.phase = "apply"]

\* The awaited setVirtualBackground has settled.
setVirtualBackgroundSettled(p, ok) ==
    IF ok THEN pollBackgroundAndApply([p EXCEPT !.applied = @ \cup {p.version}], 0, p.version)
    ELSE waitThenPoll(p, Max(1000, backoffMs(p)), p.version)

\* The timeout of wait has run out.
waitElapsed(p) ==
    pollBackgroundAndApply(p, p.next.backoffAttempt, p.next.lastVersion)

(***************************************************************************)
(*                  The state after construction, and inputs               *)
(***************************************************************************)

\* Pending result of parseBackgroundPromptDecision.
NoDecision ==
    [status |-> "pending", prompt |-> <<>>, reason |-> <<>>, rawText |-> <<>>]

\* Pending result of extractCompletionText.
NoExtraction ==
    [status |-> "pending", text |-> <<>>]

NothingExtracted ==
    /\ extractPayload = JsUndefined
    /\ extractResult = NoExtraction

\* The module-level state when initializeApp has built the wheels and awaits
\* loadPersistedWheelState.
InitialState ==
    [permissionsGranted |-> FALSE, cameraStream |-> FALSE,
     startBtnDisabled |-> TRUE, stopBtnDisabled |-> TRUE,
     transcribeBtnDisabled |-> FALSE, wheelsLocked |-> FALSE,
     gesturesLocked |-> FALSE, registerCalls |-> 0, stopCalls |-> 0,
     permissionCalls |-> 0, autoTranscriptionEnabled |-> FALSE,
     autoTranscriptionTimer |-> NoHandle, autoTimeouts |-> {},
     autoAwaitingBackgroundImage |-> FALSE, isTranscriptionInProgress |-> FALSE,
     isBackgroundImageInProgress |-> FALSE, lastBackgroundPrompt |-> NoText,
     captureRuns |-> <<>>, renderRuns |-> <<>>, backgroundImageSrc |-> NoText,
     wheelPositions |-> [i \in WheelIndexes |-> 0], activeWheelIndex |-> 0,
     wheelStateLoaded |-> FALSE, wheelStateSaveTimeout |-> NoHandle,
     saveTimeouts |-> {}, savedStates |-> <<>>, handLandmarker |-> FALSE,
     handLandmarkerInitPromise |-> FALSE, gestureStarts |-> 0,
     gestureLoopId |-> FALSE, gestureLoops |-> 0,
     lastGestureVideoTimeMs |-> NO_VIDEO_TIME, handHistories |-> EmptyHistories,
     lastTwoHandDistance |-> <<>>,
     gestureState |-> [lastWheelAdjustTime |-> 0, lastWheelSwitchTime |-> 0,
                       lastClapTime |-> 0],
     now |-> 0, videoTimeMs |-> 0,
     suppressWheelStateSave |-> FALSE, commands |-> <<>>, micStatus |-> "",
     clapTriggered |-> FALSE,
     seenLabels |-> {}, observations |-> <<>>]

\* The program's variables hold state s; nothing has been parsed or emitted.
InitAt(s) ==
    /\ permissionsGranted = s.permissionsGranted
    /\ cameraStream = s.cameraStream
    /\ startBtnDisabled = s.startBtnDisabled
    /\ stopBtnDisabled = s.stopBtnDisabled
    /\ transcribeBtnDisabled = s.transcribeBtnDisabled
    /\ wheelsLocked = s.wheelsLocked
    /\ gesturesLocked = s.gesturesLocked
    /\ registerCalls = s.registerCalls
    /\ stopCalls = s.stopCalls
    /\ permissionCalls = s.permissionCalls
    /\ autoTranscriptionEnabled = s.autoTranscriptionEnabled
    /\ autoTranscriptionTimer = s.autoTranscriptionTimer
    /\ autoTimeouts = s.autoTimeouts
    /\ autoAwaitingBackgroundImage = s.autoAwaitingBackgroundImage
    /\ isTranscriptionInProgress = s.isTranscriptionInProgress
    /\ isBackgroundImageInProgress = s.isBackgroundImageInProgress
    /\ lastBackgroundPrompt = s.lastBackgroundPrompt
    /\ captureRuns = s.captureRuns
    /\ renderRuns = s.renderRuns
    /\ backgroundImageSrc = s.backgroundImageSrc
    /\ wheelPositions = s.wheelPositions
    /\ activeWheelIndex = s.activeWheelIndex
    /\ wheelStateLoaded = s.wheelStateLoaded
    /\ wheelStateSaveTimeout = s.wheelStateSaveTimeout
    /\ saveTimeouts = s.saveTimeouts
    /\ savedStates = s.savedStates
    /\ handLandmarker = s.handLandmarker
    /\ handLandmarkerInitPromise = s.handLandmarkerInitPromise
    /\ gestureStarts = s.gestureStarts
    /\ gestureLoopId = s.gestureLoopId
    /\ gestureLoops = s.gestureLoops
    /\ lastGestureVideoTimeMs = s.lastGestureVideoTimeMs
    /\ handHistories = s.handHistories
    /\ lastTwoHandDistance = s.lastTwoHandDistance
    /\ gestureState = s.gestureState
    /\ now = s.now
    /\ videoTimeMs = s.videoTimeMs
    /\ wheelMutations = <<>>
    /\ lastCommandAt = [class \in {"spin", "switch", "clap"} |-> -1]
    /\ stoppedSinceStart = FALSE
    /\ HubStarted
    /\ backgroundFetch = NoBackgroundFetch
    /\ backgroundPoll = NoBackgroundPoll
    /\ lastEvent = [op |-> "initializeApp", commands |-> <<>>, micStatus |-> ""]

\* What invoke("load_wheel_state") can answer.
StoredState(kind, positions, activeFinite, activeIndex) ==
    [kind |-> kind, positions |-> positions, activeFinite |-> activeFinite,
     activeIndex |-> activeIndex]

StoredNothing ==
    StoredState("null", <<>>, FALSE, 0)

\* The wheels that spell "abc" and blanks.
StoredNamed ==
    StoredState("state", [i \in 1..WHEEL_COUNT |-> IF i <= 3 THEN i + 3 ELSE 0], TRUE, 0)

StoredStates ==
    { StoredNothing,
      StoredState("error", <<>>, FALSE, 0),
      StoredNamed,
      StoredState("state", [i \in 1..WHEEL_COUNT |-> IF i = 1 THEN 44
                                                     ELSE IF i = 2 THEN -35 ELSE 80],
                  TRUE, 23),
      StoredState("state", [i \in 1..WHEEL_COUNT |-> 0], FALSE, 0),
      StoredState("state", <<4, 5, 6>>, TRUE, 1) }


(***************************************************************************)
(*                               Actions                                   *)
(***************************************************************************)

Bounded(s) ==
    /\ s.registerCalls <= MaxCalls
    /\ s.stopCalls <= MaxCalls
    /\ s.gestureStarts <= MaxGestureStarts
    /\ s.gestureLoops <= MaxGestureStarts
    /\ Len(s.captureRuns) <= MaxRuns
    /\ Len(s.renderRuns) <= MaxRuns

Step(s, event) ==
    /\ Bounded(s)
    /\ Commit(s, event)
    /\ Len(wheelMutations') <= MaxMutations

\* The app content is shown by completePreflight, which follows the success of
\* ensurePermissions; until then its buttons and wheels cannot be reached.
AppVisible ==
    permissionsGranted

\* A timeout that is due runs before the events that arrive from then on.
NoSaveDue ==
    \A t \in saveTimeouts : now < t.due

LoadPersistedWheelState ==
    /\ ~wheelStateLoaded
    /\ \E state \in StoredStates :
           Step(loadPersistedWheelState(Cur, state), "loadPersistedWheelState")

\* runPreflightChecks and handlePreflightPermissions reach ensurePermissions
\* once the wheel state is loaded, one call at a time.
EnsurePermissionsBegin ==
    /\ wheelStateLoaded
    /\ ~permissionsGranted
    /\ permissionCalls = 0
    /\ Step(startCameraAndMicBegin([Cur EXCEPT !.permissionCalls = 1]), "ensurePermissions")

EnsurePermissionsSettled ==
    /\ permissionCalls > 0
    /\ \E ok \in BOOLEAN :
           Step(ensurePermissionsSettled(Cur, ok), "ensurePermissionsSettled")

HandLandmarkerSettled ==
    /\ handLandmarkerInitPromise
    /\ \E ok \in BOOLEAN :
           Step(ensureHandLandmarkerSettled(Cur, ok), "ensureHandLandmarkerSettled")

StartClick ==
    /\ AppVisible
    /\ ~startBtnDisabled
    /\ Step(registerAgent(Cur), "registerAgent")

RegisterResolved ==
    /\ registerCalls > 0
    /\ Step(registerAgentResolved(Cur), "registerAgentResolved")

RegisterRejected ==
    /\ registerCalls > 0
    /\ Step(registerAgentRejected(Cur), "registerAgentRejected")

StopClick ==
    /\ AppVisible
    /\ ~stopBtnDisabled
    /\ Step(stopAgent(Cur), "stopAgent")

StopResolved ==
    /\ stopCalls > 0
    /\ Step(stopAgentResolved(Cur), "stopAgentResolved")

StopRejected ==
    /\ stopCalls > 0
    /\ Step(stopAgentRejected(Cur), "stopAgentRejected")

TranscribeClick ==
    /\ AppVisible
    /\ ~transcribeBtnDisabled
    /\ Step(triggerTranscriptionCapture(Cur), "transcribeClick")

AutoTranscriptionTimeout ==
    \E t \in autoTimeouts :
        Step(autoTranscriptionTimeout(Cur, t.id), "autoTranscriptionTimeout")

Quote(chars) ==
    <<"\"">> \o chars \o <<"\"">>

\* The text of a JSON object with the given members, each the text of a key
\* and of a value.
RECURSIVE MembersText(_)
MembersText(members) ==
    IF members = <<>> THEN <<>>
    ELSE Quote(members[1][1]) \o <<":">> \o members[1][2]
         \o (IF Len(members) > 1 THEN <<",">> ELSE <<>>) \o MembersText(Tail(members))

ObjectText(members) ==
    <<"{">> \o MembersText(members) \o <<"}">>

\* Completion texts of the background-prompt model, as extractCompletionText
\* hands them on (trimmed).
Completions ==
    { <<>>,
      <<"b">>,
      ObjectText(<< <<KEY_STATUS, Quote(STATUS_SKIP)>> >>),
      ObjectText(<< <<KEY_STATUS, Quote(STATUS_GENERATE)>>, <<KEY_PROMPT, Quote(<<"a">>)>> >>) }

\* Bodies of the transcription response: text that is no JSON, JSON values
\* without a transcript, and completions with one.
TranscriptionResponses ==
    LET choices(first) ==
            ObjectText(<< <<KEY_CHOICES, <<"[">> \o first \o <<"]">>>> >>)
    IN  { <<"o","o","p","s">>,
          ObjectText(<<>>),
          choices(<<>>),
          choices(<<"n","u","l","l">>),
          choices(ObjectText(<< <<KEY_TEXT, Quote(<<" ">>)>> >>)),
          choices(ObjectText(<< <<KEY_TEXT, Quote(<<"h","i">>)>> >>)),
          choices(ObjectText(<< <<KEY_MESSAGE,
                                  ObjectText(<< <<KEY_CONTENT, Quote(<<"h","i">>)>> >>)>> >>)) }

CaptureResume ==
    \E i \in 1..Len(captureRuns) :
        \E outcome \in CaptureOutcomes(captureRuns[i]) :
            \E reply \in IF outcome # "ok" THEN {<<>>}
                         ELSE IF captureRuns[i] = "transcribing" THEN TranscriptionResponses
                         ELSE IF captureRuns[i] = "deciding" THEN Completions
                         ELSE {<<>>} :
                Step(triggerTranscriptionCaptureResume(Cur, i, outcome, reply),
                     "triggerTranscriptionCaptureResume")

RenderSettled ==
    \E i \in 1..Len(renderRuns) :
        \E ok \in BOOLEAN :
            Step(requestBackgroundImageSettled(Cur, i, ok), "requestBackgroundImageSettled")


\* A click on a wheel, or a turn of the mouse wheel over it.
WheelPointer ==
    /\ AppVisible
    /\ NoSaveDue
    /\ \E index \in {WHEEL_COUNT - 1} :
           \E direction \in {-1, 1} :
               Step(wheelPointerHandler(Cur, index, direction), "wheelPointer")

SaveTimeoutFires ==
    \E t \in saveTimeouts :
        /\ t.due <= now
        /\ Step(wheelStateSaveTimeoutFired(Cur, t.id), "wheelStateSaveTimeout")

\* Time passes, up to the next timeout that is due.
Tick(limit) ==
    /\ NoSaveDue
    /\ LET times == {now + TickMs} \cup {t.due : t \in saveTimeouts}
           next == CHOOSE x \in times : \A y \in times : x <= y
       IN  /\ next <= limit
           /\ Step([Cur EXCEPT !.now = next], "tick")

Hand(label, open, x, y) ==
    [label |-> label, open |-> open, x |-> x, y |-> y]

HandOptions(label, points) ==
    { <<>>, <<Hand(label, FALSE, 0, 0)>> }
        \cup { <<Hand(label, TRUE, p[1], p[2])>> : p \in points }

\* What detectForVideo can answer for a frame: at most NUM_HANDS hands, in
\* either order, also two of one handedness and one of none.
FrameHands ==
    LET lefts == HandOptions("Left", { <<40, 30>>, <<44, 45>>, <<52, 30>> })
        rights == HandOptions("Right", { <<60, 30>>, <<56, 45>> })
        both == { l \o r : l \in lefts, r \in rights }
                    \cup { r \o l : l \in lefts, r \in rights }
                    \cup { <<Hand("", TRUE, 40, 30)>>,
                           <<Hand("Left", TRUE, 40, 30), Hand("Left", TRUE, 44, 45)>> }
    IN  { hands \in both : Len(hands) <= NUM_HANDS }

\* One animation frame, with the hands detected in it drawn from handsSet
\* (nothing is detected in a frame that is not new).
GestureFrameWith(handsSet) ==
    /\ gestureLoops > 0
    /\ NoSaveDue
    /\ \E video \in {"loading", "same", "next"} :
           \E hands \in IF video = "next" /\ now # lastGestureVideoTimeMs
                         THEN handsSet ELSE {<<>>} :
               Step(runGestureLoop([Cur EXCEPT !.videoTimeMs = IF video = "next" THEN now
                                                               ELSE @],
                                   video, hands),
                    "runGestureLoop")

\* Direct calls of adjustWheel and setActiveWheel.
ApiIndexes ==
    {-21, -1, 0, 19, 20, 45}

AdjustWheelCall ==
    \E index \in ApiIndexes \cap WheelIndexes :
        \E delta \in {-41, -1, 1, 41} :
            Step(adjustWheel(Cur, index, delta), "adjustWheel")

SetActiveWheelCall ==
    \E index \in ApiIndexes :
        Step(setActiveWheel(Cur, index), "setActiveWheel")


(***************************************************************************)
(*                     Decision parsing, on its own                        *)
(***************************************************************************)

\* The members a reply can give a key: none, a number, or one of some strings.
MemberChoices(key, strings) ==
    { <<>>, << <<key, <<"1">>>> >> }
        \cup { << <<key, Quote(str)>> >> : str \in strings }

ReplyBodies ==
    { <<>>, <<"h", "i">>, <<"{", "o", "o", "p", "s">>, <<"[", "1", "]">>, <<"7">>,
      <<"n","u","l","l">>, Quote(STATUS_SKIP) }
        \cup { ObjectText(st \o pr \o re) :
                   st \in MemberChoices(KEY_STATUS,
                                         { STATUS_SKIP, STATUS_GENERATE,
                                           <<"S", "K", "I", "P">>,
                                           <<"G", "e", "n", "e", "r", "a", "t", "e">>,
                                           <<"o", "k">> }),
                   pr \in MemberChoices(KEY_PROMPT,
                                         { <<>>, <<" ">>, <<"a">>, <<" ", "a", " ">> }),
                   re \in MemberChoices(KEY_REASON,
                                         { <<" ">>, <<"r">>, <<" ", "r", " ">> }) }

DecisionReplies ==
    { lead \o body \o trail :
          lead \in { <<>>, <<" ">> }, body \in ReplyBodies, trail \in { <<>>, <<"\n">> } }

ParseDecision ==
    /\ decisionResult = NoDecision
    /\ decisionResult' = parseBackgroundPromptDecision(decisionReply)
    /\ lastEvent' = [op |-> "parseBackgroundPromptDecision", commands |-> <<>>,
                     micStatus |-> ""]
    /\ UNCHANGED <<permissionsGranted, cameraStream, startBtnDisabled, stopBtnDisabled,
                   transcribeBtnDisabled, wheelsLocked, gesturesLocked, registerCalls,
                   stopCalls, permissionCalls, autoTranscriptionEnabled,
                   autoTranscriptionTimer, autoTimeouts, autoAwaitingBackgroundImage,
                   isTranscriptionInProgress, isBackgroundImageInProgress,
                   lastBackgroundPrompt, captureRuns, renderRuns, backgroundImageSrc,
                   wheelPositions, activeWheelIndex, wheelStateLoaded,
                   wheelStateSaveTimeout, saveTimeouts, savedStates, handLandmarker,
                   handLandmarkerInitPromise, gestureStarts, gestureLoopId, gestureLoops,
                   lastGestureVideoTimeMs, handHistories, lastTwoHandDistance,
                   gestureState, now, videoTimeMs, decisionReply, wheelMutations,
                   lastCommandAt, stoppedSinceStart, extractPayload, extractResult>>
    /\ UNCHANGED <<hubVars, remoteVars>>

(***************************************************************************)
(*                  Completion extraction, on its own                      *)
(***************************************************************************)

JsString(chars) ==
    [t |-> "string", s |-> chars]

JsNumber(digits) ==
    [t |-> "number", s |-> digits]

JsNull ==
    [t |-> "null"]

JsArray(items) ==
    [t |-> "array", items |-> items]

JsObject(fields) ==
    [t |-> "object", fields |-> fields]

\* One member of an object.
JsMember(key, value) ==
    <<[key |-> key, v |-> value]>>

\* What a completion can hold as message.content: strings, other values, and
\* arrays of parts with a text, a value, both or neither.
ContentValues ==
    LET typed == JsObject(JsMember(<<"t","y","p","e">>,
                                 JsString(<<"o","u","t","p","u","t","_","t","e","x","t">>))
                          \o JsMember(KEY_TEXT, JsString(<<"x">>)))
        blank == JsObject(JsMember(KEY_TEXT, JsString(<<" ">>)))
        valued == JsObject(JsMember(KEY_VALUE, JsString(<<"v">>)))
        numbered == JsObject(JsMember(KEY_TEXT, JsNumber(<<"1">>))
                             \o JsMember(KEY_VALUE, JsString(<<"w">>)))
        both == JsObject(JsMember(KEY_TEXT, JsString(<<"y"," ">>))
                         \o JsMember(KEY_VALUE, JsString(<<"z">>)))
    IN  { JsString(<<>>), JsString(<<" ","m"," ">>), JsNumber(<<"7">>), JsNull,
          JsArray(<<>>), JsArray(<<typed>>), JsArray(<<blank>>),
          JsArray(<<typed, blank, valued>>), JsArray(<<valued, numbered>>),
          JsArray(<<both, typed>>), JsArray(<<JsString(<<"s">>), JsObject(<<>>)>>),
          JsArray(<<JsNull, valued>>), JsArray(<<blank, blank>>) }

\* The parsed bodies under extractCompletionText: values that are no object,
\* objects without choices, and choices whose first one has a flat text, a
\* message, both or neither.
ExtractPayloads ==
    LET texts == { <<>>, JsMember(KEY_TEXT, JsNumber(<<"1">>)),
                   JsMember(KEY_TEXT, JsString(<<>>)), JsMember(KEY_TEXT, JsString(<<" ">>)),
                   JsMember(KEY_TEXT, JsString(<<" ","t"," ">>)) }
        messages == { <<>>, JsMember(KEY_MESSAGE, JsNull),
                      JsMember(KEY_MESSAGE, JsString(<<"s">>)),
                      JsMember(KEY_MESSAGE, JsNumber(<<"0">>)),
                      JsMember(KEY_MESSAGE, JsObject(<<>>)) }
                        \cup { JsMember(KEY_MESSAGE, JsObject(JsMember(KEY_CONTENT, content))) :
                                   content \in ContentValues }
        firsts == { JsNull, JsString(<<"s">>), JsNumber(<<"5">>) }
                      \cup { JsObject(text \o message) : text \in texts, message \in messages }
    IN  { JsNull, JsNumber(<<"0">>), JsString(<<"s">>), JsArray(<<>>), JsObject(<<>>),
          JsObject(JsMember(KEY_CHOICES, JsString(<<"s">>))),
          JsObject(JsMember(KEY_CHOICES, JsArray(<<>>))) }
            \cup { JsObject(JsMember(KEY_CHOICES, JsArray(<<first>>))) : first \in firsts }
            \cup { JsObject(JsMember(KEY_CHOICES,
                                   JsArray(<<JsObject(<<>>),
                                             JsObject(JsMember(KEY_TEXT, JsString(<<"u">>)))>>))) }

ExtractCompletion ==
    /\ extractResult = NoExtraction
    /\ extractResult' = extractCompletionText(extractPayload)
    /\ lastEvent' = [op |-> "extractCompletionText", commands |-> <<>>,
                     micStatus |-> ""]
    /\ UNCHANGED <<permissionsGranted, cameraStream, startBtnDisabled, stopBtnDisabled,
                   transcribeBtnDisabled, wheelsLocked, gesturesLocked, registerCalls,
                   stopCalls, permissionCalls, autoTranscriptionEnabled,
                   autoTranscriptionTimer, autoTimeouts, autoAwaitingBackgroundImage,
                   isTranscriptionInProgress, isBackgroundImageInProgress,
                   lastBackgroundPrompt, captureRuns, renderRuns, backgroundImageSrc,
                   wheelPositions, activeWheelIndex, wheelStateLoaded,
                   wheelStateSaveTimeout, saveTimeouts, savedStates, handLandmarker,
                   handLandmarkerInitPromise, gestureStarts, gestureLoopId, gestureLoops,
                   lastGestureVideoTimeMs, handHistories, lastTwoHandDistance,
                   gestureState, now, videoTimeMs, decisionReply, decisionResult,
                   wheelMutations, lastCommandAt, stoppedSinceStart, extractPayload>>
    /\ UNCHANGED <<hubVars, remoteVars>>

(***************************************************************************)
(*                       The requests of the hub                           *)
(***************************************************************************)

\* The step of a hub handler that leaves the collection as store and the
\* suspended requests as requests.
HubStep(store, requests, seen, registered, event) ==
    /\ Cardinality(requests) <= MaxHubInFlight
    /\ agents' = store
    /\ hubRequests' = requests
    /\ hubSeen' = seen
    /\ hubRegistered' = registered
    /\ hubEvent' = event
    /\ UNCHANGED <<hubNow, appVars, remoteVars>>

\* A handler answers (status is the HTTP status, 0 while it is suspended); at
\* in a suspended request is the Timestamp.now() its write carries.
HubAnswer(op, route, key, status, tunnelUrl, decision) ==
    [op |-> op, route |-> route, key |-> key, status |-> status,
     tunnelUrl |-> tunnelUrl, decision |-> decision]

\* History: the suspended requests once a registration, an unregistration or
\* an expiry of the name key has reached the collection after them (it matters
\* to a suspended registration only).
Superseded(key) ==
    { IF r.key = key /\ r.await = "deliverDefaultNanobananaKey"
      THEN [r EXCEPT !.superseded = TRUE] ELSE r : r \in hubRequests }

\* POST /api/register-agent, up to its answer or to deliverDefaultNanobananaKey.
\* Its second branch is agentRef.set throwing.  Of the document it writes, the
\* fields getActiveAgent uses are kept: tunnelUrl and lastSeenAt (registeredAt
\* stands in for a missing lastSeenAt only).  A registration that writes
\* supersedes the suspended ones of its name.
RegisterAgent ==
    \E name \in HubNames, tunnelUrl \in HubUrls :
        LET key == normalizeScreenName(name)
            answer(status) ==
                HubAnswer("register-agent", "register-agent", key, status, "", "")
            store == [agents EXCEPT ![key] = [exists |-> TRUE, tunnelUrl |-> tunnelUrl,
                                              lastSeenAt |-> hubNow]]
            seen == [hubSeen EXCEPT ![key] = hubNow]
        IN  IF key = <<>> \/ tunnelUrl = ""
            THEN HubStep(agents, hubRequests, hubSeen, hubRegistered, answer(400))
            ELSE \/ HubStep(agents, hubRequests, hubSeen, hubRegistered, answer(500))
                 \/ \E requiresNanobananaKey \in BOOLEAN, hasLocalNanobananaKey \in BOOLEAN :
                        IF requiresNanobananaKey /\ ~hasLocalNanobananaKey
                        THEN HubStep(store,
                                     Superseded(key)
                                         \cup {[route |-> "register-agent", key |-> key,
                                                tunnelUrl |-> tunnelUrl,
                                                await |-> "deliverDefaultNanobananaKey",
                                                at |-> 0, superseded |-> FALSE]},
                                     seen, hubRegistered, answer(0))
                        ELSE HubStep(store, Superseded(key), seen,
                                     [hubRegistered EXCEPT ![key] = tunnelUrl],
                                     answer(200))

\* deliverDefaultNanobananaKey answers a suspended registration: delivered, or
\* it throws and the handler deletes the document (cleaned is false when that
\* delete throws).  A registration that succeeds counts as the latest one
\* unless it was superseded.
DeliverKeySettled ==
    \E r \in hubRequests :
        /\ r.await = "deliverDefaultNanobananaKey"
        /\ LET answer(status) ==
                   HubAnswer("deliverDefaultNanobananaKey", r.route, r.key, status, "", "")
           IN  \/ HubStep(agents, hubRequests \ {r}, hubSeen,
                          IF r.superseded THEN hubRegistered
                          ELSE [hubRegistered EXCEPT ![r.key] = r.tunnelUrl],
                          answer(200))
               \/ \E cleaned \in BOOLEAN :
                      HubStep(IF cleaned THEN [agents EXCEPT ![r.key] = NoAgent]
                              ELSE agents,
                              hubRequests \ {r}, hubSeen, hubRegistered, answer(500))

\* POST /api/unregister-agent.  deleted is false when agentRef.delete throws.
UnregisterAgent ==
    \E name \in HubNames, deleted \in BOOLEAN :
        LET key == normalizeScreenName(name)
            answer(status) ==
                HubAnswer("unregister-agent", "unregister-agent", key, status, "", "")
        IN  IF key = <<>>
            THEN HubStep(agents, hubRequests, hubSeen, hubRegistered, answer(400))
            ELSE IF ~deleted
                THEN HubStep(agents, hubRequests, hubSeen, hubRegistered, answer(500))
            ELSE HubStep([agents EXCEPT ![key] = NoAgent], Superseded(key), hubSeen,
                         [hubRegistered EXCEPT ![key] = "unregistered"], answer(200))

\* The status a lookup answers with once getActiveAgent has returned an agent:
\* 200 from get-agent-url, what the tunnel answers (or 502) from background/latest.
LookupStatuses(route) ==
    IF route = "get-agent-url" THEN {200} ELSE {204, 502}

\* GET /api/get-agent-url and GET /api/background/latest, up to the write of
\* getActiveAgent or, when it writes nothing, to the answer.  The first branch
\* of a valid request is agentRef.get throwing.
LookupAgent ==
    \E route \in {"get-agent-url", "background/latest"}, name \in HubNames :
        LET key == normalizeScreenName(name)
            agent == getActiveAgent(agents[key], hubNow)
            answer(status) ==
                HubAnswer("getActiveAgent", route, key, status, agent.tunnelUrl,
                          agent.decision)
            suspended(await) ==
                [route |-> route, key |-> key, tunnelUrl |-> agent.tunnelUrl,
                 await |-> await, at |-> IF await = "update" THEN hubNow ELSE 0,
                 superseded |-> FALSE]
            seen == [hubSeen EXCEPT ![key] = hubNow]
        IN  IF key = <<>>
            THEN HubStep(agents, hubRequests, hubSeen, hubRegistered,
                         HubAnswer("getActiveAgent", route, key, 400, "", ""))
            ELSE \/ HubStep(agents, hubRequests, hubSeen, hubRegistered,
                            HubAnswer("getActiveAgent", route, key, 500, "", ""))
                 \/ IF agent.decision = "none"
                    THEN HubStep(agents, hubRequests, seen, hubRegistered, answer(404))
                    ELSE IF agent.decision = "expired"
                        THEN HubStep(agents, Superseded(key) \cup {suspended("delete")},
                                     seen, [hubRegistered EXCEPT ![key] = "none"],
                                     answer(0))
                    ELSE IF agent.refresh
                        THEN HubStep(agents, hubRequests \cup {suspended("update")}, seen,
                                     hubRegistered, answer(0))
                    ELSE \E status \in LookupStatuses(route) :
                             HubStep(agents, hubRequests, seen, hubRegistered,
                                     answer(status))

\* The write of getActiveAgent reaches the collection and the lookup answers:
\* the delete of an expired document (404, or 500 when it throws), or the
\* update of lastSeenAt, which fails when the document is gone and whose
\* failure getActiveAgent only logs.
LookupWritten ==
    \E r \in hubRequests, written \in BOOLEAN :
        /\ r.await \in {"delete", "update"}
        /\ LET answer(status) ==
                   HubAnswer("getActiveAgentWritten", r.route, r.key, status, r.tunnelUrl,
                             IF r.await = "delete" THEN "expired" ELSE "active")
           IN  IF r.await = "delete"
               THEN HubStep(IF written THEN [agents EXCEPT ![r.key] = NoAgent] ELSE agents,
                            hubRequests \ {r}, hubSeen, hubRegistered,
                            answer(IF written THEN 404 ELSE 500))
               ELSE \E status \in LookupStatuses(r.route) :
                        HubStep(IF written /\ agents[r.key].exists
                                THEN [agents EXCEPT ![r.key].lastSeenAt = r.at]
                                ELSE agents,
                                hubRequests \ {r}, hubSeen, hubRegistered, answer(status))

\* The moments, in seconds, at which requests reach the hub: within the
\* refresh interval of lastSeenAt and past it, and around the five minutes.
HubTimes ==
    {0, 25, 50, 280, 300, 305, 330}

\* Time passes at the hub, up to a later one of these moments.
HubTick ==
    \E later \in HubTimes :
        /\ later > hubNow
        /\ hubNow' = later
        /\ hubEvent' = HubAnswer("tick", "", <<>>, 0, "", "")
        /\ UNCHANGED <<agents, hubRequests, hubSeen, hubRegistered, appVars, remoteVars>>

(***************************************************************************)
(*                    The proxied calls of the hub                         *)
(***************************************************************************)

\* GET /api/background/latest for a name that getActiveAgent resolves, one call
\* at a time.
BackgroundProxyCall ==
    /\ backgroundFetch.phase \in {"idle", "answered"}
    /\ backgroundFetch' = fetchBackgroundWithRetry
    /\ UNCHANGED <<hubVars, appVars, backgroundPoll>>

AxiosGetSettled ==
    /\ backgroundFetch.phase = "request"
    /\ \E outcome \in TunnelOutcomes :
           backgroundFetch' = axiosGetSettled(backgroundFetch, outcome)
    /\ UNCHANGED <<hubVars, appVars, backgroundPoll>>

RetryDelayElapsed ==
    /\ backgroundFetch.phase = "delay"
    /\ backgroundFetch' = retryDelayElapsed(backgroundFetch)
    /\ UNCHANGED <<hubVars, appVars, backgroundPoll>>

(***************************************************************************)
(*                    The poll loop of the Zoom app                        *)
(***************************************************************************)

\* initializeZoomSdk has resolved the screen name and starts the polling, in
\* an environment whose zoomSdk exposes setVirtualBackground or does not.
InitializeZoomSdk ==
    /\ backgroundPoll.phase = "idle"
    /\ \E sdkApplies \in BOOLEAN :
           backgroundPoll' =
               pollBackgroundAndApply([backgroundPoll EXCEPT !.sdkApplies = sdkApplies],
                                      0, "0")
    /\ UNCHANGED <<hubVars, appVars, backgroundFetch>>

FetchSettled ==
    /\ backgroundPoll.phase = "fetch"
    /\ \E outcome \in FetchOutcomes :
           backgroundPoll' = fetchSettled(backgroundPoll, outcome)
    /\ UNCHANGED <<hubVars, appVars, backgroundFetch>>

TextSettled ==
    /\ backgroundPoll.phase = "text"
    /\ \E ok \in BOOLEAN : backgroundPoll' = textSettled(backgroundPoll, ok)
    /\ UNCHANGED <<hubVars, appVars, backgroundFetch>>

BlobSettled ==
    /\ backgroundPoll.phase = "blob"
    /\ \E ok \in BOOLEAN : backgroundPoll' = blobSettled(backgroundPoll, ok)
    /\ UNCHANGED <<hubVars, appVars, backgroundFetch>>

SetVirtualBackgroundSettled ==
    /\ backgroundPoll.phase = "apply"
    /\ \E ok \in BOOLEAN :
           backgroundPoll' = setVirtualBackgroundSettled(backgroundPoll, ok)
    /\ UNCHANGED <<hubVars, appVars, backgroundFetch>>

WaitElapsed ==
    /\ backgroundPoll.phase = "wait"
    /\ backgroundPoll' = waitElapsed(backgroundPoll)
    /\ UNCHANGED <<hubVars, appVars, backgroundFetch>>

(***************************************************************************)
(*                           Specifications                                *)
(***************************************************************************)

NothingParsed ==
    /\ decisionReply = <<>>
    /\ decisionResult = NoDecision
    /\ NothingExtracted

\* The companion from initializeApp on: loading, preflight, the session and
\* the capture pipeline, with no clock (a timeout fires at any time).
Init ==
    /\ InitAt(InitialState)
    /\ NothingParsed

Next ==
    \/ LoadPersistedWheelState
    \/ EnsurePermissionsBegin
    \/ EnsurePermissionsSettled
    \/ HandLandmarkerSettled
    \/ StartClick
    \/ RegisterResolved
    \/ RegisterRejected
    \/ StopClick
    \/ StopResolved
    \/ StopRejected
    \/ TranscribeClick
    \/ AutoTranscriptionTimeout
    \/ CaptureResume
    \/ RenderSettled

Spec ==
    Init /\ [][Next]_vars

\* The wheels under the pointer, with the clock and the debounced save.
NextDial ==
    \/ LoadPersistedWheelState
    \/ EnsurePermissionsBegin
    \/ EnsurePermissionsSettled
    \/ WheelPointer
    \/ SaveTimeoutFires
    \/ Tick(MaxDialTime)

SpecDial ==
    Init /\ [][NextDial]_vars

\* adjustWheel and setActiveWheel called with any arguments, on loaded wheels.
InitDialApi ==
    /\ InitAt(loadPersistedWheelState(InitialState, StoredNothing))
    /\ NothingParsed

NextDialApi ==
    \/ AdjustWheelCall
    \/ SetActiveWheelCall

SpecDialApi ==
    InitDialApi /\ [][NextDialApi]_vars

\* The state when the preflight has completed at GestureStartTime: the wheel
\* state was loaded and saved, the permissions were granted, and
\* startGestureRecognition waits for the hand landmarker.
PreflightCompleted(stored) ==
    LET loaded == loadPersistedWheelState(InitialState, stored)
        saved == wheelStateSaveTimeoutFired(
                     [loaded EXCEPT !.now = WHEEL_STATE_SAVE_DELAY_MS],
                     loaded.wheelStateSaveTimeout)
        granted == ensurePermissionsSettled(
                       startCameraAndMicBegin([saved EXCEPT !.permissionCalls = 1]), TRUE)
    IN  [granted EXCEPT !.now = GestureStartTime]

\* The gesture recognizer on wheels that spell no name, so that a clap starts
\* no session.
InitBlank ==
    /\ InitAt(PreflightCompleted(StoredNothing))
    /\ NothingParsed

NextGesture ==
    \/ HandLandmarkerSettled
    \/ GestureFrameWith(FrameHands)
    \/ Tick(MaxGestureTime)

SpecGesture ==
    InitBlank /\ [][NextGesture]_vars

\* Swipes over a longer time: the sample window and the cooldowns run out.
\* One Left hand that moves along both axes, closes and leaves, with or
\* without an open Right hand that moves down and up, and two hands that are
\* both called Left.
SwipeHands ==
    HandOptions("Left", { <<40, 30>>, <<44, 45>>, <<56, 42>> })
        \cup { <<Hand("Left", TRUE, 40, 30), Hand("Right", TRUE, 80, 30)>>,
               <<Hand("Left", TRUE, 56, 42), Hand("Right", TRUE, 80, 45)>>,
               <<Hand("Left", FALSE, 0, 0), Hand("Left", TRUE, 40, 30)>>,
               <<Hand("Left", TRUE, 40, 30), Hand("Left", FALSE, 0, 0)>> }

NextSwipe ==
    \/ HandLandmarkerSettled
    \/ GestureFrameWith(SwipeHands)
    \/ SaveTimeoutFires
    \/ Tick(MaxSwipeTime)

SpecSwipe ==
    InitBlank /\ [][NextSwipe]_vars

\* The wheels under the session's locks: the pointer, swipes and the session,
\* on wheels that spell a name.
InitNamed ==
    /\ InitAt(PreflightCompleted(StoredNamed))
    /\ NothingParsed

NextLock ==
    \/ HandLandmarkerSettled
    \/ StartClick
    \/ RegisterResolved
    \/ RegisterRejected
    \/ StopClick
    \/ StopResolved
    \/ StopRejected
    \* frames of one hand that moves down, up and sideways
    \/ GestureFrameWith({ <<Hand("Left", TRUE, 40, 30)>>, <<Hand("Left", TRUE, 44, 45)>>,
                          <<Hand("Left", TRUE, 52, 30)>> })
    \/ WheelPointer
    \/ Tick(MaxLockTime)

SpecLock ==
    InitNamed /\ [][NextLock]_vars

\* parseBackgroundPromptDecision applied to a reply.
InitParse ==
    /\ InitAt(InitialState)
    /\ decisionReply \in DecisionReplies
    /\ decisionResult = NoDecision
    /\ NothingExtracted

SpecParse ==
    InitParse /\ [][ParseDecision]_vars

\* extractCompletionText applied to a parsed body.
InitExtract ==
    /\ InitAt(InitialState)
    /\ decisionReply = <<>>
    /\ decisionResult = NoDecision
    /\ extractPayload \in ExtractPayloads
    /\ extractResult = NoExtraction

SpecExtract ==
    InitExtract /\ [][ExtractCompletion]_vars

\* A session that is started and not stopped, with the pipeline, once the
\* preflight has completed on wheels that spell a name, when every timeout and
\* every awaited call of the pipeline comes to its end.
NextLoop ==
    \/ StartClick
    \/ RegisterResolved
    \/ TranscribeClick
    \/ AutoTranscriptionTimeout
    \/ CaptureResume
    \/ RenderSettled

SpecLoop ==
    /\ InitNamed
    /\ [][NextLoop]_vars
    /\ WF_vars(AutoTranscriptionTimeout)
    /\ WF_vars(CaptureResume)
    /\ WF_vars(RenderSettled)

\* The background proxy of the hub.  Every request to the tunnel comes to an
\* end (axios gives up at BACKGROUND_PROXY_TIMEOUT_MS) and every timeout runs
\* out.
NextProxy ==
    \/ BackgroundProxyCall
    \/ AxiosGetSettled
    \/ RetryDelayElapsed

SpecProxy ==
    /\ Init
    /\ [][NextProxy]_vars
    /\ WF_vars(AxiosGetSettled)
    /\ WF_vars(RetryDelayElapsed)

\* The Zoom app from initializeZoomSdk on.  Every awaited call settles and
\* every timeout runs out.
NextPoll ==
    \/ InitializeZoomSdk
    \/ FetchSettled
    \/ TextSettled
    \/ BlobSettled
    \/ SetVirtualBackgroundSettled
    \/ WaitElapsed

SpecPoll ==
    /\ Init
    /\ [][NextPoll]_vars
    /\ WF_vars(FetchSettled)
    /\ WF_vars(TextSettled)
    /\ WF_vars(BlobSettled)
    /\ WF_vars(SetVirtualBackgroundSettled)
    /\ WF_vars(WaitElapsed)

\* The hub alone: registrations, lookups and unregistrations of one name
\* under several spellings, while its clock runs.
NextHub ==
    \/ RegisterAgent
    \/ DeliverKeySettled
    \/ UnregisterAgent
    \/ LookupAgent
    \/ LookupWritten
    \/ HubTick

SpecHub ==
    Init /\ [][NextHub]_vars

\* Start and Stop on wheels that spell nothing, "ab", "a b" or "abc".
InitStart ==
    /\ \E symbols \in { <<>>, <<4, 5>>, <<4, 0, 5>>, <<4, 5, 6>> } :
           InitAt(PreflightCompleted(
                      StoredState("state",
                                  [i \in 1..WHEEL_COUNT |->
                                      IF i <= Len(symbols) THEN symbols[i] ELSE 0],
                                  TRUE, 0)))
    /\ NothingParsed

NextStart ==
    \/ HandLandmarkerSettled
    \/ StartClick
    \/ RegisterResolved
    \/ RegisterRejected
    \/ StopClick
    \/ StopResolved
    \/ StopRejected

SpecStart ==
    InitStart /\ [][NextStart]_vars

\* A session whose cycles are started by the auto-loop only (nobody clicks the
\* transcribe button), once the preflight has completed on wheels that spell
\* a name.
NextSession ==
    \/ StartClick
    \/ RegisterResolved
    \/ StopClick
    \/ StopResolved
    \/ StopRejected
    \/ AutoTranscriptionTimeout
    \/ CaptureResume
    \/ RenderSettled

SpecSession ==
    InitNamed /\ [][NextSession]_vars


(***************************************************************************)
(*                      Properties of the pipeline                         *)
(***************************************************************************)

\* The step is a call of triggerTranscriptionCapture: a click on the
\* transcribe button, or a timeout of the auto-loop that finds it enabled.
TriggerCalled ==
    \/ lastEvent'.op = "transcribeClick"
    \/ lastEvent'.op = "autoTranscriptionTimeout" /\ autoTranscriptionEnabled

\* Exactly one timeout of the auto-loop is pending after the step, the one
\* whose handle autoTranscriptionTimer holds, with this delay.
TimerPendingNext(delayMs) ==
    /\ Cardinality(autoTimeouts') = 1
    /\ \A t \in autoTimeouts' : t.id = autoTranscriptionTimer' /\ t.delay = delayMs

\* C1: two recordings never overlap (at most one invocation of the capture
\* cycle is in flight, under every interleaving of clicks and timeouts), and a
\* call that finds captureBusy set starts nothing: the runs in flight stay as
\* they are and, if the auto-loop is enabled, exactly one timeout is pending
\* afterwards, at the retry delay; if it is not, no timeout is installed.
C1_RecordingsNeverOverlap ==
    [][/\ Len(captureRuns') <= 1
       /\ (TriggerCalled /\ isTranscriptionInProgress) =>
              /\ captureRuns' = captureRuns
              /\ isTranscriptionInProgress'
              /\ IF autoTranscriptionEnabled
                 THEN TimerPendingNext(AUTO_TRANSCRIPTION_RETRY_DELAY_MS)
                 ELSE autoTimeouts' = autoTimeouts]_vars

\* C1 witness: a timeout of the auto-loop fired during a recording and was
\* turned into a retry.
C1_Witness ==
    /\ lastEvent.op = "autoTranscriptionTimeout"
    /\ captureRuns = <<"recording">>
    /\ \E t \in autoTimeouts : t.reason = "capture already running"

\* C2: two renders never overlap (at most one requestBackgroundImage is in
\* flight, and no step taken while renderBusy is set starts another), and
\* renderBusy does not hold back a capture: a call of the capture cycle that
\* finds captureBusy clear starts a recording whether or not a render is in
\* flight.
C2_RendersNeverOverlap ==
    [][/\ Len(renderRuns') <= 1
       /\ isBackgroundImageInProgress => Len(renderRuns') <= Len(renderRuns)
       /\ (TriggerCalled /\ ~isTranscriptionInProgress) =>
              captureRuns' = Append(captureRuns, "recording")]_vars

\* C2 witness: a recording was started while a render of an earlier cycle is
\* in flight.
C2_Witness ==
    /\ lastEvent.op \in {"transcribeClick", "autoTranscriptionTimeout"}
    /\ captureRuns = <<"recording">>
    /\ Len(renderRuns) = 1
    /\ isBackgroundImageInProgress

\* C2 witness of the refusal: the cycle decided to generate while a render was
\* in flight, and no second render was started.
C2_WitnessRefused ==
    /\ lastEvent.op = "triggerTranscriptionCaptureResume"
    /\ Len(renderRuns) = 1
    /\ lastBackgroundPrompt # NoText
    /\ lastBackgroundPrompt # renderRuns[1]

(***************************************************************************)
(*                      Properties of the session                          *)
(***************************************************************************)

\* C3: when stopAgent has finished, whether invoke("stop_agent") resolved or
\* rejected, the wheels and the gestures are unlocked and the auto-loop is
\* disabled.
C3_StopAlwaysUnlocks ==
    [][lastEvent'.op \in {"stopAgentResolved", "stopAgentRejected"} =>
           /\ ~wheelsLocked'
           /\ ~gesturesLocked'
           /\ ~autoTranscriptionEnabled']_vars

\* C4: when registerAgent has finished with invoke("register_agent") rejected,
\* the wheels and the gestures are unlocked, the auto-loop is not enabled and
\* none of its timeouts is pending.
C4_FailedStartLeavesNothing ==
    [][lastEvent'.op = "registerAgentRejected" =>
           /\ ~wheelsLocked'
           /\ ~gesturesLocked'
           /\ ~autoTranscriptionEnabled'
           /\ autoTimeouts' = {}
           /\ autoTranscriptionTimer' = NoHandle]_vars

(***************************************************************************)
(*                 Properties of the gesture recognizer                    *)
(***************************************************************************)

HasCommand(commands, command) ==
    \E i \in 1..Len(commands) : commands[i] = command

\* C5: the recognizer emits at most one command for a processed frame; a frame
\* that emits a spin or a switch command emits no Clap.
C5_OneCommandPerFrame ==
    /\ Len(lastEvent.commands) <= 1
    /\ HasCommand(lastEvent.commands, "Clap") => Len(lastEvent.commands) = 1

\* C6: while the dials are locked, no step changes a position or the active
\* index: not a click or scroll on a wheel, not a processed frame, not any
\* other handler.
C6_LockedDialsUnchanged ==
    [][wheelsLocked =>
           /\ wheelPositions' = wheelPositions
           /\ activeWheelIndex' = activeWheelIndex]_vars

\* The pointer has acted on a wheel of locked dials while the gesture loop runs.
C6_Witness ==
    /\ lastEvent.op = "wheelPointer"
    /\ wheelsLocked
    /\ gestureLoops > 0

\* A frame is handled while the dials are locked.
C6_WitnessFrame ==
    /\ lastEvent.op = "runGestureLoop"
    /\ wheelsLocked
    /\ lastGestureVideoTimeMs = now

\* C7: after any calls of adjustWheel and setActiveWheel with integer
\* arguments, every position is in [0, 40) and the active index in [0, 20).
C7_DialsInRange ==
    /\ \A i \in WheelIndexes : wheelPositions[i] \in 0..(Len(CHARSET) - 1)
    /\ activeWheelIndex \in 0..(WHEEL_COUNT - 1)

\* The samples a history holds for the time t: one when an open hand of that
\* handedness was seen in the frame of that time.
SamplesAt(history, t) ==
    {i \in 1..Len(history) : history[i].time = t}

OneOpenHandAt(histories, label, t) ==
    /\ Cardinality(SamplesAt(histories[label], t)) = 1
    /\ histories[label][Len(histories[label])].time = t

BothHandsOpenAt(histories, t) ==
    /\ OneOpenHandAt(histories, "Left", t)
    /\ OneOpenHandAt(histories, "Right", t)

\* The squared distance between the hands as the histories have them last.
HandsDistance2(histories) ==
    LET left == histories["Left"]
        right == histories["Right"]
    IN  SquaredDistance(left[Len(left)], right[Len(right)])

\* The step is a frame that processHandLandmarks has handled.
FrameProcessed ==
    /\ lastEvent'.op = "runGestureLoop"
    /\ lastGestureVideoTimeMs' # lastGestureVideoTimeMs

\* What holds of a step that emits Clap; strict says how the two thresholds
\* are compared.
ClapConditions(strict) ==
    /\ FrameProcessed
    /\ BothHandsOpenAt(handHistories', now')
    /\ lastGestureVideoTimeMs # NO_VIDEO_TIME
    /\ BothHandsOpenAt(handHistories, lastGestureVideoTimeMs)
    /\ lastTwoHandDistance # <<>>
    /\ now' - lastGestureVideoTimeMs <= CLAP_MAX_INTERVAL_MS
    /\ IF strict
       THEN /\ DistanceDeltaBelow(HandsDistance2(handHistories'),
                                  HandsDistance2(handHistories), CLAP_DELTA_THRESHOLD)
            /\ HandsDistance2(handHistories')
                   < CLAP_DISTANCE_THRESHOLD * CLAP_DISTANCE_THRESHOLD
       ELSE /\ DistanceDeltaAtMost(HandsDistance2(handHistories'),
                                   HandsDistance2(handHistories), CLAP_DELTA_THRESHOLD)
            /\ HandsDistance2(handHistories')
                   <= CLAP_DISTANCE_THRESHOLD * CLAP_DISTANCE_THRESHOLD
    /\ lastCommandAt.clap = -1 \/ now' - lastCommandAt.clap > CLAP_COOLDOWN_MS
    /\ lastTwoHandDistance' = <<>>

\* A handled frame without an open hand of each side resets the tracker.
TrackerResetWhenHandMissing ==
    (FrameProcessed /\ ~BothHandsOpenAt(handHistories', now'))
        => lastTwoHandDistance' = <<>>

\* C8: Clap is emitted only in a frame with one open Left and one open Right
\* hand, when the frame handled before had both too (the tracker is reset when
\* one is missing or closed) and is at most 250 ms old, the distance of the
\* hands has decreased by at least the delta threshold and is at most the
\* proximity threshold; no two Claps are emitted within 2 seconds, and the
\* tracker is reset after a Clap.
C8_ClapOnlyOnApproach ==
    [][/\ HasCommand(lastEvent'.commands, "Clap") => ClapConditions(FALSE)
       /\ TrackerResetWhenHandMissing]_vars

\* A Clap has just been emitted.
C8_Witness ==
    /\ HasCommand(lastEvent.commands, "Clap")
    /\ gestureState.lastClapTime = now
    /\ lastTwoHandDistance = <<>>

\* C8 as first stated: the distance has decreased by more than the delta
\* threshold and is below the proximity threshold.
C8_ClapOnlyBeyondThresholds ==
    [][/\ HasCommand(lastEvent'.commands, "Clap") => ClapConditions(TRUE)
       /\ TrackerResetWhenHandMissing]_vars

(***************************************************************************)
(*                       Properties of the wheels                          *)
(***************************************************************************)

\* The saves issued after exactly the first i mutations (a save of the time t
\* runs before the mutations of the time t).
SavesAfterMutation(i) ==
    {k \in 1..Len(savedStates) :
        Cardinality({j \in 1..Len(wheelMutations) :
                        wheelMutations[j].at < savedStates[k].at}) = i}

SaveHoldsMutation(k, i) ==
    /\ savedStates[k].at = wheelMutations[i].at + WHEEL_STATE_SAVE_DELAY_MS
    /\ savedStates[k].positions = wheelMutations[i].positions
    /\ savedStates[k].activeIndex = wheelMutations[i].activeIndex

\* C9: a mutation followed by another less than 400 ms later is not saved; the
\* last mutation of such a burst is saved exactly once, 400 ms after it, with
\* the positions and the active index it left; at most one save timer is
\* pending at any time.
C9_OneSavePerBurst ==
    /\ Cardinality(saveTimeouts) <= 1
    /\ \A t \in saveTimeouts : t.id = wheelStateSaveTimeout
    /\ \A i \in 1..Len(wheelMutations) :
           LET m == wheelMutations[i]
               followed == i < Len(wheelMutations)
               saves == SavesAfterMutation(i)
           IN  IF followed /\ wheelMutations[i + 1].at - m.at < WHEEL_STATE_SAVE_DELAY_MS
               THEN saves = {}
               ELSE /\ Cardinality(saves) <= 1
                    /\ \A k \in saves : SaveHoldsMutation(k, i)
                    /\ (followed \/ now > m.at + WHEEL_STATE_SAVE_DELAY_MS) => saves # {}

\* A burst of three mutations, each less than 400 ms after the one before, has
\* been saved.
C9_Witness ==
    /\ Len(wheelMutations) = 3
    /\ \A i \in 1..2 :
           wheelMutations[i + 1].at - wheelMutations[i].at
               \in 1..(WHEEL_STATE_SAVE_DELAY_MS - 1)
    /\ lastEvent.op = "wheelStateSaveTimeout"
    /\ SavesAfterMutation(3) # {}
    /\ saveTimeouts = {}

(***************************************************************************)
(*                   Properties of decision parsing                        *)
(***************************************************************************)

\* The member key of the object a reply is, when it is a string: <<string>>,
\* and <<>> when the reply is no JSON object or has no such string.
StringMember(raw, key) ==
    LET parsed == JSONparse(trim(raw))
    IN  IF parsed.ok /\ parsed.v.t = "object" /\ JsProperty(parsed.v, key).t = "string"
        THEN <<JsProperty(parsed.v, key).s>>
        ELSE <<>>

\* The decision the grammar gives a reply.  As written, a status is compared
\* and a prompt or reason is taken as the reply has it; otherwise the status
\* is compared in lower case and the prompt and reason are trimmed.
GrammarDecision(raw, asWritten) ==
    LET reply == trim(raw)
        Member(key) ==
            IF StringMember(raw, key) = <<>> THEN <<>>
            ELSE IF asWritten THEN StringMember(raw, key)
            ELSE <<trim(StringMember(raw, key)[1])>>
        status == IF StringMember(raw, KEY_STATUS) = <<>> THEN <<>>
                  ELSE IF asWritten THEN StringMember(raw, KEY_STATUS)[1]
                  ELSE toLowerCase(StringMember(raw, KEY_STATUS)[1])
        prompt == Member(KEY_PROMPT)
        reason == Member(KEY_REASON)
    IN  IF reply = <<>> THEN SkipDecision(REASON_EMPTY_RESPONSE, reply)
        ELSE IF status = STATUS_SKIP
            THEN SkipDecision(IF reason = <<>> \/ trim(reason[1]) = <<>>
                              THEN REASON_NOT_SUITABLE ELSE reason[1],
                              reply)
        ELSE IF status = STATUS_GENERATE
            THEN IF prompt = <<>> \/ prompt[1] = <<>>
                 THEN SkipDecision(REASON_OMITTED_PROMPT, reply)
                 ELSE GenerateDecision(prompt[1], reply)
        ELSE GenerateDecision(reply, reply)

Parsed ==
    decisionResult # NoDecision

\* C10: parsing gives every reply a decision by the grammar, with the status
\* compared without regard to case and the prompt and reason trimmed (a prompt
\* of whitespace counts as missing): Skip for an empty or all-whitespace reply;
\* Skip with its reason, or a default one, for status "skip"; Generate with
\* the prompt for status "generate" with a prompt, Skip without one; Generate
\* with the trimmed reply for every other reply.
C10_DecisionFollowsGrammar ==
    Parsed =>
        /\ decisionResult = GrammarDecision(decisionReply, FALSE)
        /\ decisionResult.status \in {"generate", "skip"}
        /\ trim(decisionReply) # <<>> =>
               \/ decisionResult.status = "generate" /\ decisionResult.prompt # <<>>
               \/ decisionResult.status = "skip" /\ decisionResult.reason # <<>>

\* A reply with the status "Generate" and a padded prompt has been parsed.
C10_Witness ==
    /\ Parsed
    /\ StringMember(decisionReply, KEY_STATUS) = <<<<"G", "e", "n", "e", "r", "a", "t", "e">>>>
    /\ StringMember(decisionReply, KEY_PROMPT) = <<<<" ", "a", " ">>>>
    /\ decisionResult.status = "generate"
    /\ decisionResult.prompt = <<"a">>

\* C10 as first stated: the status, the prompt and the reason are taken as
\* the reply has them.
C10_DecisionFollowsGrammarAsWritten ==
    Parsed => decisionResult = GrammarDecision(decisionReply, TRUE)

(***************************************************************************)
(*                     Properties of the screen name                       *)
(***************************************************************************)

\* The symbols the wheels show, from the first wheel to the last.
WheelSymbols ==
    [i \in 1..WHEEL_COUNT |-> getCharForPosition(wheelPositions[i - 1])]

\* Where the symbol of wheel p stands in the name: after the symbols before it
\* that are no space, and one space for each run of spaces between them.
NamePosition(symbols, p) ==
    Cardinality({j \in 1..p : symbols[j] # " "})
        + Cardinality({j \in 1..(p - 1) : symbols[j] # " " /\ symbols[j + 1] = " "})

\* C11: the screen name is the wheels' symbols without the leading and the
\* trailing spaces and with one space for every run of spaces between two
\* symbols; it is empty when every wheel is at position 0, and it never starts
\* or ends with a space nor holds two spaces in a row.
C11_NameTrimmedAndCollapsed ==
    LET name == getScreenNameFromWheels(Cur)
        letters == {p \in 1..WHEEL_COUNT : WheelSymbols[p] # " "}
        places == {NamePosition(WheelSymbols, p) : p \in letters}
    IN  /\ \A n \in places : n <= Len(name)
        /\ \A n \in 1..Len(name) : n \in places \/ name[n] = " "
        /\ \A p \in letters : name[NamePosition(WheelSymbols, p)] = WheelSymbols[p]
        /\ name # <<>> => name[1] # " " /\ name[Len(name)] # " "
        /\ \A n \in 1..(Len(name) - 1) : name[n] # " " \/ name[n + 1] # " "
        /\ (\A i \in WheelIndexes : wheelPositions[i] = 0) => name = <<>>

\* The first and the last wheel show a symbol and the eighteen between them
\* spaces: the name is the two symbols with one space between them.
C11_Witness ==
    /\ lastEvent.op = "adjustWheel"
    /\ WheelSymbols[1] # " "
    /\ WheelSymbols[WHEEL_COUNT] # " "
    /\ \A p \in 2..(WHEEL_COUNT - 1) : WheelSymbols[p] = " "
    /\ getScreenNameFromWheels(Cur) = <<WheelSymbols[1], " ", WheelSymbols[WHEEL_COUNT]>>

(***************************************************************************)
(*                       Properties of the session                         *)
(***************************************************************************)

\* The checks of Start on the state before the step, the name counted as
\* needsNonBlank says: by its symbols that are no space, or by its length.
StartChecksPass(needsNonBlank) ==
    LET name == getScreenNameFromWheels(Cur)
        counted == IF needsNonBlank THEN SelectSeq(name, LAMBDA c : c # " ") ELSE name
    IN  /\ permissionsGranted
        /\ cameraStream
        /\ Len(counted) >= MIN_SCREEN_NAME_LENGTH

\* What holds of a step of Start (registerAgent up to its remote call).
StartGuarded(needsNonBlank) ==
    lastEvent'.op = "registerAgent" =>
        /\ registerCalls' # registerCalls => StartChecksPass(needsNonBlank)
        /\ ~StartChecksPass(needsNonBlank) =>
               /\ registerCalls' = registerCalls
               /\ wheelsLocked' = wheelsLocked
               /\ gesturesLocked' = gesturesLocked
               /\ autoTranscriptionEnabled' = autoTranscriptionEnabled
               /\ autoTranscriptionTimer' = autoTranscriptionTimer
               /\ autoTimeouts' = autoTimeouts
               /\ wheelPositions' = wheelPositions
               /\ activeWheelIndex' = activeWheelIndex

\* C12: Start calls the registration API only when the permissions are
\* granted, the camera stream is there and the computed name is at least 3
\* characters long, its single spaces counted; when a check fails the API is
\* not called and the locks, the auto-loop and the wheels are left as they were.
C12_StartGuarded ==
    [][StartGuarded(FALSE)]_vars

\* Start has refused a name of two characters.
C12_Witness ==
    /\ lastEvent.op = "registerAgent"
    /\ Len(getScreenNameFromWheels(Cur)) = 2
    /\ registerCalls = 0
    /\ ~wheelsLocked

\* Start has accepted the name "a b".
C12_WitnessSpaced ==
    /\ lastEvent.op = "registerAgent"
    /\ getScreenNameFromWheels(Cur) = <<"a", " ", "b">>
    /\ registerCalls = 1
    /\ wheelsLocked

\* C12 as first stated: the name has at least 3 characters that are no space.
C12_StartGuardedNonBlank ==
    [][StartGuarded(TRUE)]_vars

(***************************************************************************)
(*                      Properties of the auto-loop                        *)
(***************************************************************************)

\* C13: a Start that has completed has reset the guards of the pipeline and
\* left the one timer of the loop's start, whatever is still in flight, so that
\* the timer starts a recording.
C13_RestartResetsGuards ==
    [][lastEvent'.op = "registerAgentResolved" =>
           /\ ~isTranscriptionInProgress'
           /\ ~isBackgroundImageInProgress'
           /\ TimerPendingNext(AUTO_START_DELAY_MS)]_vars

\* A cycle has just ended, for any reason, and the loop is enabled.
CycleEnded ==
    /\ lastEvent.op = "triggerTranscriptionCaptureResume"
    /\ ~isTranscriptionInProgress
    /\ autoTranscriptionEnabled

\* C14: when every timeout and every awaited call completes, a cycle that ends
\* with the loop enabled is followed by the start of a new cycle, unless the
\* loop is disabled first.
C14_LoopGoesOn ==
    CycleEnded ~> (isTranscriptionInProgress \/ ~autoTranscriptionEnabled)

\* A cycle of the enabled loop has ended without a render, on a decision to
\* skip or on a failure, and waits for its fallback timer.
C14_Witness ==
    /\ CycleEnded
    /\ renderRuns = <<>>
    /\ \E t \in autoTimeouts : t.reason = "post-transcription fallback"


\* C15: once stopAgent has switched the running auto-loop off, and until
\* registerAgent next passes its checks, the loop is disabled and none of its
\* timeouts is pending, so the loop starts no cycle.
C15_StoppedLoopStaysOff ==
    stoppedSinceStart => ~autoTranscriptionEnabled /\ autoTimeouts = {}

\* C15: stopAgent leaves the cycles in flight suspended where they are, and a
\* cycle or a render that ends while the loop is disabled installs no timeout.
C15_StopSparesCycleInFlight ==
    [][/\ lastEvent'.op = "stopAgent" =>
              captureRuns' = captureRuns /\ renderRuns' = renderRuns
       /\ ~autoTranscriptionEnabled' => autoTimeouts' = {}]_vars


\* C16: while gesturesLocked is set no animation-frame callback of
\* runGestureLoop is pending, also when the lock was set while
\* ensureHandLandmarker was still loading the recognizer, and the step that sets
\* the lock leaves the wheel positions and the active wheel as they were.
C16_LockedLoopNotRunning ==
    [][/\ gesturesLocked' => gestureLoops' = 0 /\ ~gestureLoopId'
       /\ gesturesLocked' /\ ~gesturesLocked =>
              /\ wheelPositions' = wheelPositions
              /\ activeWheelIndex' = activeWheelIndex]_vars


\* C19: at most one timeout of the auto-loop is pending, the one whose handle
\* autoTranscriptionTimer holds (scheduleAutoTranscription clears the pending
\* one before it installs the next), and a step that ends with the loop
\* disabled installs none.
C19_OneTimerPending ==
    [][/\ Cardinality(autoTimeouts') <= 1
       /\ \A t \in autoTimeouts' : t.id = autoTranscriptionTimer'
       /\ autoTimeouts' = {} => autoTranscriptionTimer' = NoHandle
       /\ ~autoTranscriptionEnabled' => autoTimeouts' \subseteq autoTimeouts]_vars

\* triggerTranscriptionCapture was called while a cycle was running and the
\* loop enabled: the retry timeout is the only one pending.
C19_Witness ==
    /\ lastEvent.op = "transcribeClick"
    /\ isTranscriptionInProgress
    /\ autoTranscriptionEnabled
    /\ Cardinality(autoTimeouts) = 1
    /\ \E t \in autoTimeouts : t.reason = "capture already running"

\* The step ends a cycle of triggerTranscriptionCapture.
CycleEnds ==
    /\ lastEvent'.op = "triggerTranscriptionCaptureResume"
    /\ Len(captureRuns') < Len(captureRuns)

\* The step has started a render: requestBackgroundImage went past its guards.
RenderStarts ==
    Len(renderRuns') > Len(renderRuns)

\* C20: with the auto-loop enabled, the step that ends a cycle installs no
\* timeout when the cycle's decision started a render, and leaves exactly one
\* pending at the fallback delay when it started none (skip, no transcript,
\* failure, render refused as busy); the step in which a render settles, well
\* or not, leaves exactly one pending at the post-render delay.
C20_RenderDefersNextTimer ==
    [][/\ CycleEnds /\ autoTranscriptionEnabled' /\ RenderStarts =>
              autoTimeouts' = autoTimeouts
       /\ CycleEnds /\ autoTranscriptionEnabled' /\ ~RenderStarts =>
              TimerPendingNext(AUTO_TRANSCRIPTION_FALLBACK_DELAY_MS)
       /\ lastEvent'.op = "requestBackgroundImageSettled" /\ autoTranscriptionEnabled' =>
              TimerPendingNext(AUTO_TRANSCRIPTION_POST_IMAGE_DELAY_MS)]_vars

\* A cycle has ended with its render in flight and the loop enabled: nothing is
\* pending.
C20_Witness ==
    /\ lastEvent.op = "triggerTranscriptionCaptureResume"
    /\ autoTranscriptionEnabled
    /\ autoAwaitingBackgroundImage
    /\ captureRuns = <<>>
    /\ renderRuns # <<>>
    /\ autoTimeouts = {}

\* A render has settled with the loop enabled.
C20_WitnessSettled ==
    /\ lastEvent.op = "requestBackgroundImageSettled"
    /\ autoTranscriptionEnabled
    /\ \E t \in autoTimeouts : t.reason = "after background preview"

\* A cycle whose decision asked for a render while one was in flight has ended.
C20_WitnessRefused ==
    /\ lastEvent.op = "triggerTranscriptionCaptureResume"
    /\ autoTranscriptionEnabled
    /\ isBackgroundImageInProgress
    /\ ~autoAwaitingBackgroundImage
    /\ \E t \in autoTimeouts : t.reason = "post-transcription fallback"


(***************************************************************************)
(*                        Properties of the hub                            *)
(***************************************************************************)

\* The step is the read of getActiveAgent for a lookup of route.
LookupReads(route) ==
    /\ hubEvent'.op = "getActiveAgent"
    /\ hubEvent'.route = route
    /\ hubEvent'.decision # ""

\* C17: a lookup (get-agent-url or background/latest) finds the agent expired,
\* deleting it and answering 404, only when no lookup and no registration of
\* that name reached the hub in the five minutes before it; so an agent that
\* is looked up at intervals shorter than five minutes is never expired.
C17_ExpiresAfterInactivity ==
    [][\A route \in {"get-agent-url", "background/latest"} :
           LookupReads(route) /\ hubEvent'.decision = "expired" =>
               hubSeen[hubEvent'.key] < hubNow - AGENT_URL_TTL_MINUTES * 60]_vars

\* A lookup finds an agent expired that nothing has touched for more than five
\* minutes.
C17_WitnessIdle ==
    /\ hubEvent.op = "getActiveAgent"
    /\ hubEvent.decision = "expired"
    /\ \E r \in hubRequests : r.await = "delete"

\* A registration of the name has written its document and not answered yet.
HubWriting(key) ==
    \E r \in hubRequests : r.key = key /\ r.await = "deliverDefaultNanobananaKey"

\* C18: once register-agent has answered 200 for a name, get-agent-url for
\* every spelling that normalizes to the same key finds the tunnelUrl of the
\* latest such registration, until the name is unregistered or found expired;
\* once unregister-agent has answered 200 it finds nothing and answers 404,
\* until the next registration.
C18_LookupFindsLatestRegistration ==
    [][LookupReads("get-agent-url") /\ ~HubWriting(hubEvent'.key) =>
           LET registered == hubRegistered[hubEvent'.key]
           IN  /\ registered \in HubUrls =>
                      \/ hubEvent'.decision = "expired"
                      \/ /\ hubEvent'.decision = "active"
                         /\ hubEvent'.tunnelUrl = registered
                         /\ hubEvent'.status \in {0, 200}
               /\ registered = "unregistered" =>
                      hubEvent'.decision = "none" /\ hubEvent'.status = 404]_vars

\* get-agent-url answers 200 with the tunnelUrl registered under another
\* spelling of the name.
C18_WitnessFound ==
    /\ hubEvent.route = "get-agent-url"
    /\ hubEvent.status = 200
    /\ hubEvent.tunnelUrl = "https://two"
    /\ hubRegistered[hubEvent.key] = "https://two"

(***************************************************************************)
(*              Properties of the prompt, the stop and the locks           *)
(***************************************************************************)

\* C21: lastBackgroundPrompt changes only in the step in which a render
\* succeeds, and then to the prompt of that render (which is the image shown
\* from then on); a Generate decision whose render fails, or is refused
\* because a render is in progress, leaves it as it was.
C21_PromptFollowsRender ==
    [][lastBackgroundPrompt' # lastBackgroundPrompt =>
          /\ lastEvent'.op = "requestBackgroundImageSettled"
          /\ \E i \in 1..Len(renderRuns) :
                 /\ renderRuns' = RemoveAt(renderRuns, i)
                 /\ lastBackgroundPrompt' = renderRuns[i]
                 /\ backgroundImageSrc' = renderRuns[i]]_vars

\* The session is stopped: stopAgent has switched the running auto-loop off,
\* no registerAgent has passed its checks since, and the loop is off.
SessionStopped ==
    stoppedSinceStart /\ ~autoTranscriptionEnabled

\* C22: a call of the pipeline that was in flight when the session was
\* stopped runs to completion, and its result is discarded: while the session
\* is stopped, the step in which a call of the cycle or a render completes
\* starts no render and leaves the displayed image as it is.
C22_StoppedDiscardsResults ==
    [][/\ SessionStopped
       /\ lastEvent'.op \in {"triggerTranscriptionCaptureResume",
                             "requestBackgroundImageSettled"}
       => /\ Len(renderRuns') <= Len(renderRuns)
          /\ backgroundImageSrc' = backgroundImageSrc]_vars

\* C23: the wheels and the gestures become locked only in the step in which
\* invoke("register_agent") resolves, and neither is locked while a
\* registration call is pending.
C23_LockedOnlyAfterRegistration ==
    [][/\ registerCalls' > 0 => ~wheelsLocked' /\ ~gesturesLocked'
       /\ (wheelsLocked' /\ ~wheelsLocked) \/ (gesturesLocked' /\ ~gesturesLocked)
          => lastEvent'.op = "registerAgentResolved"]_vars

(***************************************************************************)
(*                     Properties of one capture cycle                     *)
(***************************************************************************)

\* The await that follows the await a cycle is suspended at.
StageAfter(stage) ==
    CASE stage = "ensureCapture" -> "recording"
      [] stage = "recording" -> "encoding"
      [] stage = "encoding" -> "transcribing"
      [] stage = "transcribing" -> "deciding"
      [] stage = "deciding" -> "done"

\* C24: the stages of a cycle run one after the other, in the order recording,
\* encoding, transcribing, deciding: a step changes the cycles in flight only
\* by starting one at its first await, by moving one from the await that has
\* answered to the next, or by ending one; isTranscriptionInProgress is set as
\* long as a cycle is in flight, up to the end of its deciding stage; and a
\* render is requested only in the step in which the deciding stage of a cycle
\* ends, with the prompt of a Generate decision.
C24_StagesInOrder ==
    [][/\ captureRuns' # <<>> => isTranscriptionInProgress'
       /\ captureRuns' # captureRuns =>
              \/ /\ TriggerCalled
                 /\ \E first \in {"ensureCapture", "recording"} :
                        captureRuns' = Append(captureRuns, first)
              \/ /\ lastEvent'.op = "triggerTranscriptionCaptureResume"
                 /\ \E i \in 1..Len(captureRuns) :
                        \/ /\ captureRuns[i] # "deciding"
                           /\ captureRuns' = [captureRuns EXCEPT ![i] = StageAfter(@)]
                        \/ captureRuns' = RemoveAt(captureRuns, i)
       /\ RenderStarts =>
              /\ lastEvent'.op = "triggerTranscriptionCaptureResume"
              /\ \E i \in 1..Len(captureRuns) :
                     /\ captureRuns[i] = "deciding"
                     /\ captureRuns' = RemoveAt(captureRuns, i)
              /\ \E completion \in Completions :
                     LET decision == parseBackgroundPromptDecision(completion)
                     IN  /\ decision.status = "generate"
                         /\ renderRuns' = Append(renderRuns, decision.prompt)
                         /\ lastBackgroundPrompt' = decision.prompt]_vars

\* C24 witness: a cycle went through its four stages and its Generate decision
\* has requested the render of the prompt "a".
C24_Witness ==
    /\ lastEvent.op = "triggerTranscriptionCaptureResume"
    /\ ~isTranscriptionInProgress
    /\ captureRuns = <<>>
    /\ renderRuns = << <<"a">> >>
    /\ lastBackgroundPrompt = <<"a">>

(***************************************************************************)
(*                  Properties of extractCompletionText                    *)
(***************************************************************************)

\* The first choice of the payload, undefined when the payload holds no
\* choices.
FirstChoice(payload) ==
    LET choices == JsProperty(payload, KEY_CHOICES)
    IN  IF choices.t = "array" /\ choices.items # <<>> THEN choices.items[1]
        ELSE JsUndefined

\* C26: the text extracted from a payload is the flat text of the first
\* choice, trimmed, when that is a string that is not blank; otherwise the
\* content of its message, trimmed, when that is a string; otherwise the texts
\* of the content parts that are not blank, joined; and the empty text for
\* every other shape of the payload.
C26_ExtractionPrecedence ==
    extractResult # NoExtraction =>
        LET flat == JsProperty(FirstChoice(extractPayload), KEY_TEXT)
            content == JsProperty(JsProperty(FirstChoice(extractPayload), KEY_MESSAGE),
                                  KEY_CONTENT)
        IN  /\ extractResult.status = "returned"
            /\ extractResult.text =
                   IF flat.t = "string" /\ trim(flat.s) # <<>> THEN trim(flat.s)
                   ELSE IF content.t = "string" THEN trim(content.s)
                   ELSE IF content.t = "array"
                       THEN trim(JoinWithSpace(ContentParts(content)))
                   ELSE <<>>

(***************************************************************************)
(*                 Properties of a cycle without transcript                *)
(***************************************************************************)

\* The responses that hold no transcript: those JSON.parse cannot parse, and
\* those from which extractCompletionText returns no text or does not return.
ResponsesWithoutTranscript ==
    { response \in TranscriptionResponses :
          JSONparse(response).ok =>
              extractCompletionText(JSONparse(response).v)
                  \in {ExtractThrown, ExtractedText(<<>>)} }

\* The step reports that the transcription returned no text.
NoTextReported ==
    /\ lastEvent'.op = "triggerTranscriptionCaptureResume"
    /\ lastEvent'.micStatus = "Transcription succeeded, but no text was returned."

\* C25: a cycle whose transcription response holds no transcript, also a
\* response that is no JSON, reports that no text was returned; the step that
\* reports it ends the cycle at its transcribing stage, so that the decision
\* model is not called, requests no render, clears
\* isTranscriptionInProgress, and leaves exactly one timeout of the auto-loop
\* pending if the loop is enabled (none is installed if it is not).
C25_EmptyTranscriptEndsCycle ==
    [][/\ \A i \in 1..Len(captureRuns) :
              captureRuns[i] = "transcribing" =>
                  \A response \in ResponsesWithoutTranscript :
                      triggerTranscriptionCaptureResume(Cur, i, "ok", response).micStatus
                          = "Transcription succeeded, but no text was returned."
       /\ NoTextReported =>
              /\ \E i \in 1..Len(captureRuns) :
                     /\ captureRuns[i] = "transcribing"
                     /\ captureRuns' = RemoveAt(captureRuns, i)
              /\ renderRuns' = renderRuns
              /\ lastBackgroundPrompt' = lastBackgroundPrompt
              /\ ~isTranscriptionInProgress'
              /\ IF autoTranscriptionEnabled'
                 THEN TimerPendingNext(AUTO_TRANSCRIPTION_FALLBACK_DELAY_MS)
                 ELSE autoTimeouts' = autoTimeouts]_vars

\* C25 witness: a cycle of the running auto-loop has ended on a transcription
\* without text, and the next cycle is scheduled.
C25_Witness ==
    /\ lastEvent.op = "triggerTranscriptionCaptureResume"
    /\ lastEvent.micStatus = "Transcription succeeded, but no text was returned."
    /\ autoTranscriptionEnabled
    /\ captureRuns = <<>>
    /\ \E t \in autoTimeouts : t.reason = "post-transcription fallback"


(***************************************************************************)
(*                      Properties of the hand histories                   *)
(***************************************************************************)

\* A frame can be processed now: a loop is scheduled, the recognizer is loaded
\* and unlocked, and the video has moved on since the last pass.
FrameCanBeProcessed ==
    /\ gestureLoops > 0
    /\ handLandmarker
    /\ ~gesturesLocked
    /\ now # lastGestureVideoTimeMs

\* No sample of the history is older than the window before its newest one.
WithinWindow(history) ==
    \A k \in 1..Len(history) :
        history[Len(history)].time - history[k].time <= GESTURE_HISTORY_WINDOW_MS

\* The frame holds a closed hand of the label, or no hand of it.
ClosedOrAbsent(hands, label) ==
    \/ \E i \in 1..Len(hands) : hands[i].label = label /\ ~hands[i].open
    \/ \A i \in 1..Len(hands) : hands[i].label # label

\* C27: after every processed frame each label's history holds only samples
\* taken at most 350 ms before its newest sample, and the history of every
\* label whose hand is closed or absent in that frame is empty.
C27_HistoriesWindowedAndCleared ==
    FrameCanBeProcessed =>
        \A hands \in SwipeHands :
            LET after == processHandLandmarks(Cur, hands).handHistories
            IN  \A label \in DOMAIN after :
                    /\ WithinWindow(after[label])
                    /\ ClosedOrAbsent(hands, label) => after[label] = <<>>

(***************************************************************************)
(*                      Properties of the swipes                           *)
(***************************************************************************)

SpinEmitted(commands) ==
    HasCommand(commands, "WheelUp") \/ HasCommand(commands, "WheelDown")

SwitchEmitted(commands) ==
    HasCommand(commands, "NextWheel") \/ HasCommand(commands, "PreviousWheel")

\* C28: a spin command is emitted more than 400 ms after the spin command
\* before it, a switch command more than 400 ms after the switch command
\* before it, and none of the three cooldown timestamps ever decreases (the
\* clock of the frames never runs backwards).
C28_CooldownsPerClass ==
    [][/\ now' >= now
       /\ SpinEmitted(lastEvent'.commands) =>
              \/ lastCommandAt.spin = -1
              \/ now' - lastCommandAt.spin > WHEEL_ADJUST_COOLDOWN_MS
       /\ SwitchEmitted(lastEvent'.commands) =>
              \/ lastCommandAt.switch = -1
              \/ now' - lastCommandAt.switch > WHEEL_SWITCH_COOLDOWN_MS
       /\ \A class \in DOMAIN gestureState : gestureState'[class] >= gestureState[class]]_vars

\* A second spin has just been emitted, by the first frame after the cooldown
\* of the first one; no switch has been emitted.
C28_Witness ==
    /\ SpinEmitted(lastEvent.commands)
    /\ gestureState.lastWheelAdjustTime = now
    /\ gestureState.lastWheelSwitchTime = 0
    /\ Len(wheelMutations) = 2
    /\ wheelMutations[2].at = now
    /\ now - wheelMutations[1].at = WHEEL_ADJUST_COOLDOWN_MS + TickMs

\* The label has an open hand in the frame of the time t, and this is how far
\* its history reaches back from it.
SwipeDisplacement(histories, label, t) ==
    LET history == histories[label]
    IN  IF history # <<>> /\ history[Len(history)].time = t /\ history[1].time < t
        THEN [valid |-> TRUE,
              dx |-> history[Len(history)].x - history[1].x,
              dy |-> history[Len(history)].y - history[1].y]
        ELSE [valid |-> FALSE, dx |-> 0, dy |-> 0]

MovedVertically(d) ==
    d.valid /\ Abs(d.dy) >= SWIPE_MIN_DISPLACEMENT /\ Abs(d.dy) > Abs(d.dx)

MovedHorizontally(d) ==
    d.valid /\ Abs(d.dx) >= SWIPE_MIN_DISPLACEMENT /\ Abs(d.dx) > Abs(d.dy)

\* C29: a spin is emitted only by a frame that finds the spin cooldown over and
\* an open hand whose history, from its oldest to its newest sample, has |dy|
\* at or above the threshold and above |dx|: WheelUp for a negative dy,
\* WheelDown for a positive one.  A switch is emitted only by a frame that
\* emits no spin and finds the switch cooldown over and an open hand with |dx|
\* at or above the threshold and above |dy|.  Vertical goes first: a frame
\* that could spin does, whatever its hands did horizontally.
C29_VerticalBeforeHorizontal ==
    [][LET spinReady == now' - gestureState.lastWheelAdjustTime > WHEEL_ADJUST_COOLDOWN_MS
           switchReady == now' - gestureState.lastWheelSwitchTime > WHEEL_SWITCH_COOLDOWN_MS
           moved(label) == SwipeDisplacement(handHistories', label, now')
       IN  /\ SpinEmitted(lastEvent'.commands) =>
                  /\ FrameProcessed
                  /\ spinReady
                  /\ \E label \in DOMAIN handHistories :
                         /\ MovedVertically(moved(label))
                         /\ HasCommand(lastEvent'.commands,
                                       IF moved(label).dy < 0 THEN "WheelUp" ELSE "WheelDown")
           /\ SwitchEmitted(lastEvent'.commands) =>
                  /\ FrameProcessed
                  /\ ~SpinEmitted(lastEvent'.commands)
                  /\ switchReady
                  /\ \E label \in DOMAIN handHistories : MovedHorizontally(moved(label))
           /\ (/\ FrameProcessed
               /\ spinReady
               /\ \E label \in DOMAIN handHistories : MovedVertically(moved(label)))
                  => SpinEmitted(lastEvent'.commands)]_vars

\* A frame has spun the wheel down for the Right hand although the Left hand,
\* which comes first in it, moved sideways and the switch cooldown was over.
C29_Witness ==
    /\ lastEvent.op = "runGestureLoop"
    /\ lastEvent.commands = <<"WheelDown">>
    /\ now - gestureState.lastWheelSwitchTime > WHEEL_SWITCH_COOLDOWN_MS
    /\ MovedHorizontally(SwipeDisplacement(handHistories, "Left", now))
    /\ MovedVertically(SwipeDisplacement(handHistories, "Right", now))

(***************************************************************************)
(*                      Properties of the gesture loop                     *)
(***************************************************************************)

\* C30: at most one animation-frame callback of runGestureLoop is pending at
\* any time, also after startGestureRecognition was called again while an
\* earlier call was waiting in ensureHandLandmarker, and a callback classifies
\* a frame only when its timestamp differs from the one classified last.
C30_OneLoopOnePassPerFrame ==
    [][/\ gestureLoops' <= 1
       /\ FrameProcessed => videoTimeMs' # lastGestureVideoTimeMs]_vars

(***************************************************************************)
(*                  Properties of the persisted wheel state                *)
(***************************************************************************)

\* The value brought into 0..(n - 1) by saturation.
ClampIntoRange(value, n) ==
    IF value < 0 THEN 0 ELSE IF value >= n THEN n - 1 ELSE value

\* The value brought into 0..(n - 1) by counting around: the residue modulo n.
WrapIntoRange(value, n) ==
    CHOOSE r \in 0..(n - 1) : \E k \in -3..3 : value = k * n + r

\* What loadPersistedWheelState does with everything that can be stored, when
\* bring says where a stored position ends.
LoadsAs(bring(_, _)) ==
    ~wheelStateLoaded =>
        \A state \in StoredStates :
            LET after == loadPersistedWheelState(Cur, state)
            IN  /\ after.wheelStateLoaded
                /\ IF state.kind = "state" /\ Len(state.positions) = WHEEL_COUNT
                   THEN /\ \A i \in WheelIndexes :
                               /\ after.wheelPositions[i] \in 0..(Len(CHARSET) - 1)
                               /\ after.wheelPositions[i]
                                      = bring(state.positions[i + 1], Len(CHARSET))
                        /\ after.activeWheelIndex \in WheelIndexes
                   ELSE /\ \A i \in WheelIndexes : after.wheelPositions[i] = 0
                        /\ after.activeWheelIndex = InitialState.activeWheelIndex

\* C31: on load a stored state is applied only if it has exactly 20 positions;
\* then every position ends in 0..39, a stored value in that range as it is and
\* one outside of it clamped to the nearest end, and activeIndex ends in 0..19;
\* any other stored state, or none, leaves the positions at 0 and activeIndex
\* at its default.
C31_LoadClampsPositions ==
    LoadsAs(ClampIntoRange)

\* C31 as the code has it: a stored value outside of 0..39 ends at its residue
\* modulo 40 (44 at 4, -35 at 5, 80 at 0), not at the nearest end.
C31_LoadWrapsPositions ==
    LoadsAs(WrapIntoRange)

\* The state with the positions 44, -35 and 80 and the activeIndex 23 has been
\* loaded.
C31_Witness ==
    /\ lastEvent.op = "loadPersistedWheelState"
    /\ wheelStateLoaded
    /\ wheelPositions[0] = 4
    /\ wheelPositions[1] = 5
    /\ wheelPositions[2] = 0
    /\ activeWheelIndex = 3

(***************************************************************************)
(*                    Properties of the hub's lookups                      *)
(***************************************************************************)

\* The step is the answer of a lookup for which getActiveAgent returned an
\* agent.
LookupResolves ==
    /\ hubEvent'.op \in {"getActiveAgent", "getActiveAgentWritten"}
    /\ hubEvent'.decision = "active"
    /\ hubEvent'.status # 0

\* C32: when a lookup (get-agent-url or background/latest) resolves an active
\* agent, the agent's lastSeenAt is the time of that call once it has answered.
C32_LookupUpdatesLastSeen ==
    [][LookupResolves =>
           /\ agents'[hubEvent'.key].exists
           /\ IF hubEvent'.op = "getActiveAgent"
              THEN agents'[hubEvent'.key].lastSeenAt = hubNow
              ELSE \E r \in hubRequests \ hubRequests' :
                       agents'[hubEvent'.key].lastSeenAt = r.at]_vars

(***************************************************************************)
(*                 Properties of the hub's background proxy                *)
(***************************************************************************)

\* C33: a proxied call makes at most 3 requests to the tunnel.  A request that
\* comes to an HTTP response, of any status, is answered with that status and
\* not repeated; one that fails in transport is followed by a delay, and only
\* then by the next request; after 3 failures in a row the call is answered
\* with 502, and 502 is answered for no other reason; and every call that is
\* under way is answered in the end.
C33_ProxyRetriesBounded ==
    /\ [][LET f == backgroundFetch
              g == backgroundFetch'
          IN  /\ g.requests <= 3
              /\ f.phase = "request" /\ g.outcome.kind # "error" =>
                     /\ g.phase = "answered"
                     /\ g.answer.status = g.outcome.status
                     /\ g.requests = f.requests
              /\ f.phase = "request" /\ g.outcome.kind = "error" =>
                     /\ g.phase = "delay"
                     /\ g.delayMs > 0
                     /\ g.requests = f.requests
                     /\ g.failures = f.requests
              /\ f.phase = "delay" =>
                     /\ g.elapsedMs = f.elapsedMs + f.delayMs
                     /\ IF f.failures = 3
                        THEN g.phase = "answered" /\ g.answer.status = 502
                                 /\ g.requests = 3
                        ELSE g.phase = "request" /\ g.requests = f.requests + 1
              /\ g.answer.status = 502 /\ f.answer.status # 502 =>
                     f.phase = "delay" /\ f.failures = 3]_vars
    /\ (backgroundFetch.phase \in {"request", "delay"}
            ~> backgroundFetch.phase = "answered")

\* Three requests have failed, at the timeout each, and the call has been
\* answered with 502 after the delays of 250, 500 and 750 ms.
C33_Witness ==
    /\ backgroundFetch.phase = "answered"
    /\ backgroundFetch.answer.status = 502
    /\ backgroundFetch.requests = 3
    /\ backgroundFetch.failures = 3
    /\ backgroundFetch.elapsedMs = 3 * BACKGROUND_PROXY_TIMEOUT_MS + 250 + 500 + 750

(***************************************************************************)
(*                 Properties of the session and its loop                  *)
(***************************************************************************)

\* C34: whenever the auto-loop is enabled, the dials and the gestures are
\* locked, also when Stop is invoked while a registration call is pending.
C34_EnabledImpliesLocked ==
    autoTranscriptionEnabled => wheelsLocked /\ gesturesLocked

\* A render is in flight, and when it settles, well or not, with the loop
\* enabled, it leaves a timeout of the auto-loop pending.
RenderWillSchedule ==
    /\ renderRuns # <<>>
    /\ isBackgroundImageInProgress
    /\ \A i \in 1..Len(renderRuns) : \A ok \in BOOLEAN :
           LET settled == requestBackgroundImageSettled(Cur, i, ok)
           IN  settled.autoTranscriptionEnabled => settled.autoTimeouts # {}

\* C35: no wake-up is lost.  While the auto-loop is enabled and no cycle is in
\* flight, a timeout of the auto-loop is pending or a render is in flight that
\* schedules one when it settles; and autoAwaitingBackgroundImage is set only
\* while a render is in flight and the loop is enabled.
C35_NoLostWakeUp ==
    /\ autoTranscriptionEnabled /\ ~isTranscriptionInProgress =>
           autoTimeouts # {} \/ RenderWillSchedule
    /\ autoAwaitingBackgroundImage =>
           isBackgroundImageInProgress /\ autoTranscriptionEnabled

\* The loop was stopped and started again while a render was in flight: the
\* render is no longer awaited, and the timeout of the loop's start is pending.
C35_Witness ==
    /\ lastEvent.op = "registerAgentResolved"
    /\ autoTranscriptionEnabled
    /\ ~isTranscriptionInProgress
    /\ renderRuns # <<>>
    /\ ~autoAwaitingBackgroundImage
    /\ \E t \in autoTimeouts : t.reason = "loop start"

LookupDeletes ==
    /\ hubEvent'.op = "getActiveAgentWritten"
    /\ hubEvent'.decision = "expired"
    /\ agents[hubEvent'.key].exists
    /\ ~agents'[hubEvent'.key].exists

\* C37: a lookup deletes only a registration that is expired.  When the delete
\* of a lookup that read an expired document reaches the collection after a
\* new registration of the same name, the new document stays.
C37_LookupDeletesOnlyExpired ==
    [][LookupDeletes =>
           getActiveAgent(agents[hubEvent'.key], hubNow).decision = "expired"]_vars

\* The step is the failure of the registration r: deliverDefaultNanobananaKey
\* has thrown after its attempts and the handler answers.
RegistrationFails(r) ==
    /\ r \in hubRequests \ hubRequests'
    /\ r.await = "deliverDefaultNanobananaKey"
    /\ hubEvent'.op = "deliverDefaultNanobananaKey"
    /\ hubEvent'.status # 200

\* The last answer of the hub was a lookup that resolved the document of the
\* registration r, which no later write of the name has replaced.
ResolvedWhilePending(r) ==
    /\ hubEvent.op \in {"getActiveAgent", "getActiveAgentWritten"}
    /\ hubEvent.key = r.key
    /\ hubEvent.decision = "active"
    /\ hubEvent.status \in {200, 204, 502}
    /\ hubEvent.tunnelUrl = r.tunnelUrl
    /\ ~r.superseded

\* C38: a registration that ends in failure is never observable.  When the
\* delivery of the hub's default key fails, the document is removed and the
\* caller gets an error, and no lookup answered while the registration was in
\* progress has resolved its tunnelUrl.
C38_FailedRegistrationUnobservable ==
    [][\A r \in hubRequests :
           RegistrationFails(r) =>
               /\ hubEvent'.status = 500
               /\ ~r.superseded => ~agents'[r.key].exists
               /\ ~ResolvedWhilePending(r)]_vars

(***************************************************************************)
(*              Properties of the load of the wheel state                  *)
(***************************************************************************)

\* invoke("load_wheel_state") rejects.
LoadFails ==
    StoredState("error", <<>>, FALSE, 0)

\* The step is loadPersistedWheelState whose invoke has rejected.
FailedLoadStep ==
    /\ ~wheelStateLoaded
    /\ lastEvent'.op = "loadPersistedWheelState"
    /\ Cur' = loadPersistedWheelState(Cur, LoadFails)

\* C39: a load of the wheel state that fails leaves no save scheduled (so that
\* the stored state is not overwritten with the defaults before a dial is
\* mutated), and while the load has not completed no mutation of a dial
\* schedules a save.
C39_FailedLoadSchedulesNoSave ==
    [][/\ FailedLoadStep =>
              saveTimeouts' = {} /\ wheelStateSaveTimeout' = NoHandle
       /\ ~wheelStateLoaded =>
              /\ \A index \in WheelIndexes : \A delta \in {-1, 1} :
                     adjustWheel(Cur, index, delta).saveTimeouts = saveTimeouts
              /\ \A index \in WheelIndexes :
                     setActiveWheel(Cur, index).saveTimeouts = saveTimeouts]_vars

(***************************************************************************)
(*               Properties of the Zoom app's poll loop                    *)
(***************************************************************************)

\* The step is the answer to a fetch that brings no background: 204, 404,
\* another status that is not ok, or a rejection.
NoBackgroundAnswered ==
    /\ backgroundPoll.phase = "fetch"
    /\ ~(backgroundPoll'.status >= 200 /\ backgroundPoll'.status <= 299
             /\ backgroundPoll'.status # 204)

\* The version the loop sends as since from the step on: that of the call it
\* has started, or of the call it starts when its timeout has run out.
SinceAfter ==
    IF backgroundPoll'.phase = "wait" THEN backgroundPoll'.next.lastVersion
    ELSE backgroundPoll'.lastVersion

\* C40: the poll loop advances the version it sends as since only to a version
\* whose background setVirtualBackground has applied, so that a background it
\* got and could not apply is requested again; an answer without a background
\* (204, 404, not ok, a failed fetch) leaves the version as it was; and the
\* loop always comes to its next poll.
C40_SinceAdvancesOnlyToApplied ==
    /\ [][/\ SinceAfter # backgroundPoll.lastVersion =>
                 SinceAfter \in backgroundPoll'.applied
          /\ NoBackgroundAnswered => SinceAfter = backgroundPoll.lastVersion]_vars
    /\ (backgroundPoll.phase \in {"text", "blob", "apply", "wait"}
            ~> backgroundPoll.phase = "fetch")

=============================================================================
